---- MODULE Spec2Model ----
(***************************************************************************)
(* The scheduling agent of ssumakant/abp-agent: the constitution check,    *)
(* the calendar and rescheduling tools, the workflow nodes and their       *)
(* graph, the HTTP handlers that run it, and the credential and settings   *)
(* upserts on the database.                                                *)
(*                                                                         *)
(* Conventions.  An Optional value is a tuple: None is <<>> and a present  *)
(* value v is <<v>>, so Python's "if x" is "x # None".  A text built by an *)
(* f-string is the tuple of its pieces.  Time is counted in minutes since   *)
(* 00:00 of a Monday; an ISO-8601 text is the record of its fields.        *)
(***************************************************************************)
EXTENDS Integers, Sequences, FiniteSets, TLC

None == <<>>
Some(v) == <<v>>

Range(f) == {f[i] : i \in DOMAIN f}

(***************************************************************************)
(* Dates and times                                                         *)
(***************************************************************************)

\* An ISO-8601 text: the wall-clock day, hour and minute it shows and the UTC
\* offset it ends with, in minutes ('Z' and '+00:00' are 0).  valid is FALSE
\* for a text datetime.fromisoformat rejects.
IsoAt(d, h, m, off) == [valid |-> TRUE, day |-> d, hh |-> h, mm |-> m, off |-> off]
Iso(d, h, m) == IsoAt(d, h, m, 0)
NotIso == [valid |-> FALSE, day |-> 0, hh |-> 0, mm |-> 0, off |-> 0]

\* datetime.fromisoformat(s.replace('Z', '+00:00')) of a valid text: a
\* datetime is its wall-clock minutes and its UTC offset
fromisoformat(s) == [local |-> s.day * 1440 + s.hh * 60 + s.mm, off |-> s.off]

\* The point in time of a datetime: what <, max, min and - of two datetimes use
instant(t) == t.local - t.off

\* datetime + timedelta(minutes=...)
plus(t, minutes) == [t EXCEPT !.local = @ + minutes]

\* datetime.isoformat()
isoformat(t) == IsoAt(t.local \div 1440, (t.local % 1440) \div 60, t.local % 60, t.off)

\* datetime.time(), as minutes since midnight
time_of(t) == t.local % 1440

\* datetime.date(), as a day number
date_of(t) == t.local \div 1440

\* date.weekday(): 0 is Monday
weekday(d) == d % 7

DAY_NAMES == <<"monday", "tuesday", "wednesday", "thursday", "friday", "saturday", "sunday">>

\* datetime.strftime('%A').lower()
day_name(t) == DAY_NAMES[weekday(date_of(t)) + 1]

\* An 'HH:MM' text and datetime.strptime(s, '%H:%M').time()
HM(h, m) == [hh |-> h, mm |-> m]
strptime(s) == s.hh * 60 + s.mm

(***************************************************************************)
(* tools/constitution_tools.py                                             *)
(***************************************************************************)

WEEKDAYS == {"monday", "tuesday", "wednesday", "thursday", "friday"}

get_default_constitution ==
    [ working_hours |-> [start |-> HM(9, 0), end |-> HM(17, 0)],
      personal_time_rules |-> {"saturday", "sunday"},
      protected_time_blocks |->
          << [name |-> "Kids School Run", start |-> HM(7, 30), end |-> HM(8, 30),
              days |-> WEEKDAYS] >>,
      density_threshold |-> 85 ]

\* Rule 2 left out: no block ever holds a meeting
no_blocking(meeting_time, protected_blocks) == 0

\* Rule 2 with the end of a block left out of it
first_blocking_open_end(meeting_time, protected_blocks) ==
    LET hits == { i \in DOMAIN protected_blocks :
                    /\ day_name(meeting_time) \in protected_blocks[i].days
                    /\ strptime(protected_blocks[i].start) <= time_of(meeting_time)
                    /\ time_of(meeting_time) < strptime(protected_blocks[i].end) }
    IN  IF hits = {} THEN 0 ELSE CHOOSE i \in hits : \A j \in hits : i <= j

\* Rule 2: the first block, in list order, that the meeting falls in (0 if none)
first_blocking(meeting_time, protected_blocks) ==
    LET hits == { i \in DOMAIN protected_blocks :
                    /\ day_name(meeting_time) \in protected_blocks[i].days
                    /\ strptime(protected_blocks[i].start) <= time_of(meeting_time)
                    /\ time_of(meeting_time) <= strptime(protected_blocks[i].end) }
    IN  IF hits = {} THEN 0 ELSE CHOOSE i \in hits : \A j \in hits : i <= j

\* The rules in another order: protected blocks, then personal days, then hours
check_constitution_blocks_first(meeting_time_str, constitution, meeting_type) ==
    LET meeting_time == fromisoformat(meeting_time_str)
        blocking     == first_blocking(meeting_time, constitution.protected_time_blocks)
    IN  IF blocking # 0
        THEN [is_allowed |-> FALSE,
              reason |-> <<"This time conflicts with ",
                           constitution.protected_time_blocks[blocking].name, ".">>,
              approval_type |-> Some("protected_time_override")]
        ELSE IF day_name(meeting_time) \in constitution.personal_time_rules
        THEN [is_allowed |-> meeting_type = "personal",
              reason |-> <<"This is a ", day_name(meeting_time)>>,
              approval_type |-> IF meeting_type = "personal" THEN None
                                ELSE Some("weekend_override")]
        ELSE [is_allowed |-> TRUE,
              reason |-> <<"Meeting complies with all scheduling rules.">>,
              approval_type |-> None]

\* (is_allowed, reason, approval_type) for a text that parses
check_constitution(meeting_time_str, constitution, meeting_type) ==
    LET meeting_time == fromisoformat(meeting_time_str)
        day_of_week  == day_name(meeting_time)
        blocking     == first_blocking(meeting_time, constitution.protected_time_blocks)
        work_start   == strptime(constitution.working_hours.start)
        work_end     == strptime(constitution.working_hours.end)
    IN  IF day_of_week \in constitution.personal_time_rules
        THEN IF meeting_type = "personal"
             THEN [is_allowed |-> TRUE,
                   reason |-> <<"Personal event scheduled on weekend.">>,
                   approval_type |-> None]
             ELSE [is_allowed |-> FALSE,
                   reason |-> <<"This is a ", day_of_week,
                                ", which is protected for personal time.">>,
                   approval_type |-> Some("weekend_override")]
        ELSE IF blocking # 0
        THEN [is_allowed |-> FALSE,
              reason |-> <<"This time conflicts with ",
                           constitution.protected_time_blocks[blocking].name, ".">>,
              approval_type |-> Some("protected_time_override")]
        ELSE IF ~(work_start <= time_of(meeting_time) /\ time_of(meeting_time) <= work_end)
        THEN [is_allowed |-> FALSE,
              reason |-> <<"Meeting at ", ToString(time_of(meeting_time)),
                           " is outside working hours (",
                           ToString(constitution.working_hours.start), "-",
                           ToString(constitution.working_hours.end), ").">>,
              approval_type |-> Some("work_hours_override")]
        ELSE [is_allowed |-> TRUE,
              reason |-> <<"Meeting complies with all scheduling rules.">>,
              approval_type |-> None]

(***************************************************************************)
(* tools/rescheduling_tools.py                                             *)
(***************************************************************************)

\* list.sort(key=...): a stable ascending sort, less(a, b) comparing the keys
sort_by(seq, less(_, _)) ==
    LET n == Len(seq)
        before(i, j) == less(seq[i], seq[j]) \/ (~less(seq[j], seq[i]) /\ i < j)
        rank(i) == Cardinality({j \in 1..n : before(j, i)}) + 1
    IN  [k \in 1..n |-> seq[CHOOSE i \in 1..n : rank(i) = k]]

\* An e-mail address text; caps says it holds upper-case letters.  str.lower()
Email(n, d) == [name |-> n, domain |-> d, caps |-> FALSE]
lower(email) == [email EXCEPT !.caps = FALSE]

\* email.endswith(f"@{internal_domain}") of a lower-cased address
endswith_domain(email, internal_domain) ==
    ~email.caps /\ ~internal_domain.caps /\ email.domain = internal_domain.domain

\* < on two offset suffixes as Python strings: '+' sorts before '-', then
\* the digits decide
offset_text_less(a, b) ==
    IF (a >= 0) # (b >= 0) THEN a >= 0
    ELSE IF a >= 0 THEN a < b ELSE b < a

\* < on two ISO texts compared as Python strings: the date, the time, then
\* the offset suffix, whatever point in time each text denotes
iso_text_less(a, b) ==
    \/ a.day < b.day
    \/ a.day = b.day /\ a.hh < b.hh
    \/ a.day = b.day /\ a.hh = b.hh /\ a.mm < b.mm
    \/ a.day = b.day /\ a.hh = b.hh /\ a.mm = b.mm /\ offset_text_less(a.off, b.off)

is_accepted(a) == a.responseStatus = "accepted"

\* A solo test that asks for one accepted attendee, whoever it is
is_sole_accepted_event(event, user_email) ==
    Len(SelectSeq(event.attendees, is_accepted)) = 1

is_solo_attendee_event(event, user_email) ==
    LET accepted_attendees == SelectSeq(event.attendees, is_accepted)
    IN  /\ Len(accepted_attendees) = 1
        /\ lower(accepted_attendees[1].email) = lower(user_email)

count_internal_attendees(event, user_email, internal_domain) ==
    Cardinality({ i \in DOMAIN event.attendees :
                    /\ lower(event.attendees[i].email) # lower(user_email)
                    /\ endswith_domain(lower(event.attendees[i].email), internal_domain)
                    /\ event.attendees[i].responseStatus = "accepted" })

\* The tier-2 score (internal_count, duration_minutes, start) of an event
score_of(event, user_email, internal_domain) ==
    << count_internal_attendees(event, user_email, internal_domain),
       instant(fromisoformat(event.end)) - instant(fromisoformat(event.start)),
       instant(fromisoformat(event.start)) >>

\* < on the first component only
score_less_count_only(x, y) == x[1] < y[1]

\* < on two score tuples
score_less(x, y) ==
    \/ x[1] < y[1]
    \/ x[1] = y[1] /\ x[2] < y[2]
    \/ x[1] = y[1] /\ x[2] = y[2] /\ x[3] < y[3]

\* None, or the candidate record
find_reschedule_candidate(events, user_email, internal_domain) ==
    LET solo(e) == is_solo_attendee_event(e, user_email)
        solo_meetings == sort_by(SelectSeq(events, solo),
                                 LAMBDA a, b : iso_text_less(a.start, b.start))
        user_accepted(e) == \E i \in DOMAIN e.attendees :
                               /\ lower(e.attendees[i].email) = lower(user_email)
                               /\ e.attendees[i].responseStatus = "accepted"
        valid_events == SelectSeq(events, user_accepted)
        scored_events == sort_by(valid_events,
                                 LAMBDA a, b : score_less(score_of(a, user_email, internal_domain),
                                                          score_of(b, user_email, internal_domain)))
    IN  IF events = <<>> THEN None
        ELSE IF solo_meetings # <<>>
        THEN Some([candidate_event |-> solo_meetings[1],
                   reason |-> "solo_attendee",
                   explanation |-> <<"Found a meeting where you are the only accepted attendee.">>,
                   internal_count |-> None])
        ELSE IF valid_events = <<>> THEN None
        ELSE Some([candidate_event |-> scored_events[1],
                   reason |-> "fewest_internal",
                   explanation |-> <<"Found a meeting with ",
                                     ToString(score_of(scored_events[1], user_email,
                                                       internal_domain)[1]),
                                     " internal colleague(s).">>,
                   internal_count |-> Some(score_of(scored_events[1], user_email,
                                                    internal_domain)[1])])

RECURSIVE flatten(_)
\* all_busy_periods before the sort: every calendar's busy list, in dict order
flatten(calendars) ==
    IF calendars = <<>> THEN <<>>
    ELSE [i \in DOMAIN calendars[1].busy |->
             [start |-> fromisoformat(calendars[1].busy[i].start),
              end   |-> fromisoformat(calendars[1].busy[i].end)]]
         \o flatten(Tail(calendars))

\* max(a, b) and min(a, b) of two datetimes
max2(a, b) == IF instant(b) > instant(a) THEN b ELSE a
min2(a, b) == IF instant(b) < instant(a) THEN b ELSE a

\* A slot for every gap that is long enough, whatever its hour
gap_slots_any_hour(gap_start, gap_end, duration_minutes, work_start_time, work_end_time) ==
    IF instant(gap_end) - instant(gap_start) >= duration_minutes
    THEN << [start |-> isoformat(gap_start),
             end   |-> isoformat(plus(gap_start, duration_minutes))] >>
    ELSE <<>>

\* The slot a gap yields: one slot of the wanted length at the gap's start, or none
gap_slots(gap_start, gap_end, duration_minutes, work_start_time, work_end_time) ==
    IF /\ work_start_time <= time_of(gap_start)
       /\ time_of(gap_start) <= work_end_time
       /\ instant(gap_end) - instant(gap_start) >= duration_minutes
    THEN << [start |-> isoformat(gap_start),
             end   |-> isoformat(plus(gap_start, duration_minutes))] >>
    ELSE <<>>

RECURSIVE walk_busy_last_end(_, _, _, _, _, _, _)
\* The same loop going on from the end of the period just seen, wherever
\* earlier periods ended
walk_busy_last_end(periods, current_time, search_start, search_end, duration_minutes, ws, we) ==
    IF periods = <<>>
    THEN IF instant(current_time) < instant(search_end)
         THEN gap_slots(current_time, search_end, duration_minutes, ws, we)
         ELSE <<>>
    ELSE (IF instant(current_time) < instant(periods[1].start)
          THEN gap_slots(max2(current_time, search_start),
                         min2(periods[1].start, search_end), duration_minutes, ws, we)
          ELSE <<>>)
         \o walk_busy_last_end(Tail(periods), periods[1].end,
                               search_start, search_end, duration_minutes, ws, we)

RECURSIVE walk_busy(_, _, _, _, _, _, _)
\* The loop over the sorted busy periods, then the gap after the last one
walk_busy(periods, current_time, search_start, search_end, duration_minutes, ws, we) ==
    IF periods = <<>>
    THEN IF instant(current_time) < instant(search_end)
         THEN gap_slots(current_time, search_end, duration_minutes, ws, we)
         ELSE <<>>
    ELSE (IF instant(current_time) < instant(periods[1].start)
          THEN gap_slots(max2(current_time, search_start),
                         min2(periods[1].start, search_end), duration_minutes, ws, we)
          ELSE <<>>)
         \o walk_busy(Tail(periods), max2(current_time, periods[1].end),
                      search_start, search_end, duration_minutes, ws, we)

find_available_slots(free_busy_data, duration_minutes, time_min, time_max, work_hours) ==
    LET all_busy_periods == sort_by(flatten(free_busy_data),
                                    LAMBDA a, b : instant(a.start) < instant(b.start))
        search_start == fromisoformat(time_min)
        search_end   == fromisoformat(time_max)
        available_slots == walk_busy(all_busy_periods, search_start, search_start, search_end,
                                     duration_minutes, strptime(work_hours.start),
                                     strptime(work_hours.end))
    IN  SubSeq(available_slots, 1,
               IF Len(available_slots) > 5 THEN 5 ELSE Len(available_slots))

(***************************************************************************)
(* tools/calendar_tools.py                                                 *)
(***************************************************************************)

RECURSIVE sum_event_minutes_open_end(_, _, _)
\* The same with the closing minute of the work hours left out
sum_event_minutes_open_end(events, work_start, work_end) ==
    IF events = <<>> THEN 0
    ELSE (IF /\ work_start <= time_of(fromisoformat(events[1].start))
             /\ time_of(fromisoformat(events[1].start)) < work_end
          THEN instant(fromisoformat(events[1].end))
                   - instant(fromisoformat(events[1].start))
          ELSE 0)
         + sum_event_minutes_open_end(Tail(events), work_start, work_end)

RECURSIVE sum_event_minutes(_, _, _)
\* total_event_hours, in minutes: the full length of every event that starts
\* at a time of day inside the work hours
sum_event_minutes(events, work_start, work_end) ==
    IF events = <<>> THEN 0
    ELSE (IF /\ work_start <= time_of(fromisoformat(events[1].start))
             /\ time_of(fromisoformat(events[1].start)) <= work_end
          THEN instant(fromisoformat(events[1].end))
                   - instant(fromisoformat(events[1].start))
          ELSE 0)
         + sum_event_minutes(Tail(events), work_start, work_end)

\* round(a / b, 2) in hundredths, for b > 0 (halves round up)
round2(a, b) == (200 * a + b) \div (2 * b)

\* density is in hundredths; the hour totals are kept in minutes, unrounded
calculate_busyness(events, work_hours, time_min, time_max) ==
    LET work_start == strptime(work_hours.start)
        work_end   == strptime(work_hours.end)
        start_date == fromisoformat(time_min)
        end_date   == fromisoformat(time_max)
        workdays   == { d \in date_of(start_date)..date_of(end_date) : weekday(d) < 5 }
        total_work_minutes  == Cardinality(workdays) * (work_end - work_start)
        total_event_minutes == sum_event_minutes(events, work_start, work_end)
    IN  [ is_busy |-> IF total_work_minutes = 0 THEN FALSE
                      ELSE IF total_work_minutes > 0
                      THEN 100 * total_event_minutes > 85 * total_work_minutes
                      ELSE 100 * total_event_minutes < 85 * total_work_minutes,
          density |-> IF total_work_minutes = 0 THEN 0
                      ELSE IF total_work_minutes > 0
                      THEN round2(total_event_minutes, total_work_minutes)
                      ELSE 0 - round2(total_event_minutes, 0 - total_work_minutes),
          total_event_minutes |-> total_event_minutes,
          total_work_minutes  |-> total_work_minutes ]

(***************************************************************************)
(* configuration/constants.py and the texts the nodes write                *)
(***************************************************************************)

INTENT_SCHEDULE_MEETING   == "schedule_meeting"
INTENT_RESCHEDULE_MEETING == "reschedule_meeting"
INTENT_CHECK_AVAILABILITY == "check_availability"
INTENT_ASSESS_BUSYNESS    == "assess_busyness"
INTENT_UNKNOWN            == "unknown"

MSG_CALENDAR_ACCESS_FAILED == "Unable to access your calendar."
MSG_NO_MEETINGS_FOUND      == "No suitable meetings found to reschedule."
MSG_UNEXPECTED_ERROR       == "An unexpected error occurred."

\* The cross mark that return_response and the handlers put before an error
FAILURE_MARKER == "(x) "

\* The exception classes of exceptions.py that the nodes catch by name
DOMAIN_CALENDAR_ERRORS == {"CalendarAPIError", "AuthenticationError"}

(***************************************************************************)
(* auth/credentials_manager.py and database/models.py                      *)
(***************************************************************************)

\* Result.scalar_one_or_none() over the rows a select returns
scalar_one_or_none(rows) ==
    IF rows = {} THEN [raised |-> None, row |-> None]
    ELSE IF Cardinality(rows) = 1
    THEN [raised |-> None, row |-> Some(CHOOSE r \in rows : TRUE)]
    ELSE [raised |-> Some("MultipleResultsFound"), row |-> None]

\* select(OAuthToken).where(OAuthToken.user_id == user_id)
select_tokens(tokens, user_id) == { r \in tokens : r.user_id = user_id }

\* Credentials(token=..., refresh_token=..., token_uri=..., client_id=...,
\* client_secret=..., scopes=...): the row's expiry is not passed on
Credentials(row) ==
    [token |-> row.access_token, refresh_token |-> row.refresh_token, expiry |-> None]

\* creds.expired at the minute now: credentials without an expiry never are
expired(creds, now) == IF creds.expiry = None THEN FALSE ELSE now >= creds.expiry[1]

\* creds.refresh(Request()): the provider issues access token 0, good for an hour
refresh(creds, now) == [creds EXCEPT !.token = 0, !.expiry = Some(now + 60)]

\* The credentials returned (token) and the rows of oauth_tokens after the
\* call (tokens).  No call changes the rows, Credentials(row) having no
\* expiry; the callers in the services therefore leave oauth_tokens alone.
get_credentials(tokens, user_id, now) ==
    LET found == scalar_one_or_none(select_tokens(tokens, user_id))
        creds == Credentials(found.row[1])
        fresh == refresh(creds, now)
    IN  IF found.raised # None
        THEN [raised |-> found.raised, token |-> None, tokens |-> tokens]
        ELSE IF found.row = None
        THEN [raised |-> Some("ValueError"), token |-> None, tokens |-> tokens]
        ELSE IF expired(creds, now) /\ creds.refresh_token # None
        THEN [raised |-> None, token |-> Some(fresh.token),
              tokens |-> { IF r = found.row[1]
                           THEN [r EXCEPT !.access_token = fresh.token,
                                          !.expiry = fresh.expiry]
                           ELSE r : r \in tokens }]
        ELSE [raised |-> None, token |-> Some(creds.token), tokens |-> tokens]

(***************************************************************************)
(* services/calendar_service.py, rescheduling_service.py, email_service.py *)
(***************************************************************************)

\* datetime.now().isoformat() + 'Z' and the same, days_ahead later
window_min(now) == isoformat(now)
window_max(now, days_ahead) == isoformat(plus(now, days_ahead * 1440))

\* calendar_tools.get_calendar_events: the provider's events in the window
get_calendar_events(calendar, time_min, time_max) ==
    LET in_window(e) == /\ instant(fromisoformat(e.end)) > instant(fromisoformat(time_min))
                        /\ instant(fromisoformat(e.start)) < instant(fromisoformat(time_max))
    IN  SelectSeq(calendar, in_window)

\* fetch_ok is FALSE when the provider call fails: the failure is logged and
\* the calendar contributes no event.
get_events_for_user(tokens, user_id, world, days_ahead, fetch_ok) ==
    LET credentials == get_credentials(tokens, user_id, instant(world.now))
    IN  IF credentials.raised # None THEN [raised |-> credentials.raised, events |-> <<>>]
        ELSE [raised |-> None,
              events |-> IF fetch_ok
                         THEN get_calendar_events(world.events, window_min(world.now),
                                                  window_max(world.now, days_ahead))
                         ELSE <<>>]

calculate_schedule_density(tokens, user_id, world, work_hours, fetch_ok) ==
    LET got == get_events_for_user(tokens, user_id, world, 7, fetch_ok)
        busyness_data == calculate_busyness(got.events, work_hours, window_min(world.now),
                                            window_max(world.now, 7))
    IN  IF got.raised # None THEN [raised |-> got.raised, data |-> None]
        ELSE [raised |-> None,
              data |-> Some([is_busy |-> busyness_data.is_busy,
                             density |-> busyness_data.density,
                             message |->
                                 IF busyness_data.is_busy
                                 THEN <<"Your schedule is ", ToString(busyness_data.density),
                                        "% booked, which exceeds your 85% threshold.">>
                                 ELSE <<"Your schedule is ", ToString(busyness_data.density),
                                        "% booked.">>])]

\* api_ok is FALSE when the provider's free/busy query raises
service_find_available_slots(tokens, user_id, world, duration_minutes, work_hours, api_ok) ==
    LET credentials == get_credentials(tokens, user_id, instant(world.now))
    IN  IF credentials.raised # None THEN [raised |-> credentials.raised, slots |-> <<>>]
        ELSE IF ~api_ok THEN [raised |-> Some("HttpError"), slots |-> <<>>]
        ELSE [raised |-> None,
              slots |-> find_available_slots(world.busy, duration_minutes,
                                             window_min(world.now), window_max(world.now, 7),
                                             work_hours)]

\* api_ok is FALSE when the provider's insert raises; event is the body sent
create_event(tokens, user_id, world, calendar_id, summary, start_time, end_time, api_ok) ==
    LET credentials == get_credentials(tokens, user_id, instant(world.now))
    IN  IF credentials.raised # None THEN [raised |-> credentials.raised, event |-> None]
        ELSE IF ~api_ok THEN [raised |-> Some("HttpError"), event |-> None]
        ELSE [raised |-> None,
              event |-> Some([calendar_id |-> calendar_id, summary |-> summary,
                              start |-> start_time, end |-> end_time])]

find_best_meeting_to_move(tokens, user_id, user_email, internal_domain, world, fetch_ok) ==
    LET got == get_events_for_user(tokens, user_id, world, 14, fetch_ok)
    IN  IF got.raised # None THEN [raised |-> got.raised, result |-> None]
        ELSE IF got.events = <<>> THEN [raised |-> None, result |-> None]
        ELSE [raised |-> None,
              result |-> find_reschedule_candidate(got.events, user_email, internal_domain)]

format_reschedule_proposal(result) ==
    IF result.reason = "solo_attendee"
    THEN <<"To free up time, I suggest rescheduling '", result.candidate_event.summary,
           "' where you are the only accepted attendee. Shall I proceed?">>
    ELSE <<"No solo-attendee meetings found. ">> \o result.explanation
         \o <<" I suggest rescheduling '", result.candidate_event.summary,
              "'. Shall I proceed?">>

\* email_tools.draft_reschedule_email, the body left as its template's inputs
draft_reschedule_email(meeting, new_time_slot, user_name) ==
    LET not_organizer(a) == ~a.organizer
        invited == SelectSeq(meeting.attendees, not_organizer)
    IN  [ subject    |-> <<"Request to Reschedule: ", meeting.summary>>,
          body       |-> <<meeting.summary, ToString(fromisoformat(meeting.start)),
                           ToString(fromisoformat(new_time_slot.start)),
                           ToString(fromisoformat(new_time_slot.end)), user_name>>,
          recipients |-> [i \in DOMAIN invited |-> invited[i].email],
          meeting_id |-> meeting.id,
          new_start  |-> new_time_slot.start,
          new_end    |-> new_time_slot.end ]

\* The methods the two service classes define
ReschedulingService == {"find_best_meeting_to_move", "format_reschedule_proposal"}
EmailService == {"draft_reschedule_email"}

(***************************************************************************)
(* graph/nodes_refactored.py.  A node maps the state, the database rows,   *)
(* the calendar world and the outcome of its external calls to the new     *)
(* state and to what it did on the calendar and the mail account.          *)
(***************************************************************************)

\* What a node returns: the state, and the events it created, the meetings
\* it moved and the e-mails it sent
Did(s, created, moved, sent) ==
    [st |-> s, created |-> created, moved |-> moved, sent |-> sent, raised |-> None]
Only(s) == Did(s, <<>>, <<>>, <<>>)

\* The node does not return: an exception leaves it
Raises(s, exception) == [Only(s) EXCEPT !.raised = Some(exception)]

\* The except clauses shared by the calendar nodes
calendar_error(raised) ==
    IF raised \in DOMAIN_CALENDAR_ERRORS THEN MSG_CALENDAR_ACCESS_FAILED
    ELSE MSG_UNEXPECTED_ERROR

load_user_context(s) == Only(s)

\* llm is what LLMService.detect_intent returns, or raises is TRUE
determine_intent(s, llm) ==
    IF llm.raises
    THEN Only([s EXCEPT !.intent = Some(INTENT_UNKNOWN),
                        !.error = Some("Could not understand your request. Please try rephrasing.")])
    ELSE Only([s EXCEPT !.intent = Some(llm.intent),
                        !.new_meeting = IF llm.entities # None THEN llm.entities ELSE @,
                        !.messages = Append(@, <<"Intent: ", llm.intent>>)])

assess_schedule_busyness(s, tokens, world, fetch_ok) ==
    LET busyness == calculate_schedule_density(tokens, s.user_id, world,
                        s.user_context.constitution.working_hours, fetch_ok)
    IN  IF busyness.raised # None
        THEN Only([s EXCEPT !.error = Some(calendar_error(busyness.raised[1]))])
        ELSE Only([s EXCEPT !.is_busy = Some(busyness.data[1].is_busy),
                            !.density_percentage = Some(busyness.data[1].density),
                            !.busy_message = Some(busyness.data[1].message),
                            !.final_response =
                                IF s.intent \in {Some(INTENT_ASSESS_BUSYNESS),
                                                 Some(INTENT_CHECK_AVAILABILITY)}
                                THEN busyness.data[1].message ELSE @])

check_meeting_against_constitution(s) ==
    LET meeting == s.new_meeting
        proposed_time == IF meeting # None THEN meeting[1].proposed_time ELSE None
        meeting_type == IF meeting[1].meeting_type # None THEN meeting[1].meeting_type[1]
                        ELSE "business"
        checked == check_constitution(proposed_time[1], s.user_context.constitution,
                                      meeting_type)
    IN  IF meeting # None /\ ~meeting[1].is_dict
        THEN Raises(s, "AttributeError")
        ELSE IF proposed_time = None
        THEN Only([s EXCEPT !.requires_approval = FALSE])
        ELSE IF ~proposed_time[1].valid
        THEN Only([s EXCEPT !.error = Some("Unable to validate meeting time")])
        ELSE IF ~checked.is_allowed
        THEN Only([s EXCEPT !.requires_approval = TRUE,
                            !.approval_type = checked.approval_type,
                            !.approval_data = Some([meeting |-> meeting,
                                                    reason |-> checked.reason,
                                                    proposed_time |-> proposed_time]),
                            !.final_response = <<"Override Required: ">> \o checked.reason
                                \o <<"Would you like to proceed anyway?">>])
        ELSE Only([s EXCEPT !.requires_approval = FALSE])

\* A booking that does not check the slot it found against the constitution
find_and_book_slot_unchecked(s, tokens, world, freebusy_ok, insert_ok) ==
    LET meeting == s.new_meeting
        duration == IF meeting # None /\ meeting[1].duration # None
                    THEN meeting[1].duration[1] ELSE 60
        title == IF meeting # None THEN meeting[1].title ELSE None
        found == service_find_available_slots(tokens, s.user_id, world, duration,
                     s.user_context.constitution.working_hours, freebusy_ok)
        slot == found.slots[1]
        created_event == create_event(tokens, s.user_id, world, "primary",
                                      IF title # None THEN title[1] ELSE "New Meeting",
                                      slot.start, slot.end, insert_ok)
    IN  IF meeting # None /\ ~meeting[1].is_dict
        THEN Only([s EXCEPT !.error = Some(calendar_error("AttributeError"))])
        ELSE IF found.raised # None
        THEN Only([s EXCEPT !.error = Some(calendar_error(found.raised[1]))])
        ELSE IF found.slots = <<>>
        THEN Only([s EXCEPT !.final_response =
                       <<"No available time slots found. Your calendar is very busy.">>])
        ELSE IF created_event.raised # None
        THEN Only([s EXCEPT !.error = Some(calendar_error(created_event.raised[1]))])
        ELSE Did([s EXCEPT !.final_response = <<"Meeting '", ToString(title),
                                                "' scheduled for ", ToString(slot.start)>>],
                 created_event.event, <<>>, <<>>)

find_and_book_slot(s, tokens, world, freebusy_ok, insert_ok) ==
    LET meeting == s.new_meeting
        constitution == s.user_context.constitution
        duration == IF meeting # None /\ meeting[1].duration # None
                    THEN meeting[1].duration[1] ELSE 60
        title == IF meeting # None THEN meeting[1].title ELSE None
        found == service_find_available_slots(tokens, s.user_id, world, duration,
                                              constitution.working_hours, freebusy_ok)
        slot == found.slots[1]
        checked == check_constitution(slot.start, constitution, "business")
        created_event == create_event(tokens, s.user_id, world, "primary",
                                      IF title # None THEN title[1] ELSE "New Meeting",
                                      slot.start, slot.end, insert_ok)
    IN  IF meeting # None /\ ~meeting[1].is_dict
        THEN Only([s EXCEPT !.error = Some(calendar_error("AttributeError"))])
        ELSE IF found.raised # None
        THEN Only([s EXCEPT !.error = Some(calendar_error(found.raised[1]))])
        ELSE IF found.slots = <<>>
        THEN Only([s EXCEPT !.final_response =
                       <<"No available time slots found. Your calendar is very busy.">>])
        ELSE IF ~checked.is_allowed
        THEN Only([s EXCEPT !.requires_approval = TRUE,
                            !.approval_type = checked.approval_type,
                            !.approval_data = Some([meeting |-> meeting,
                                                    reason |-> checked.reason,
                                                    proposed_time |-> Some(slot.start)]),
                            !.final_response = <<"Found a slot at ", ToString(slot.start),
                                                 ", but it requires override: ">>
                                               \o checked.reason])
        ELSE IF created_event.raised # None
        THEN Only([s EXCEPT !.error = Some(calendar_error(created_event.raised[1]))])
        ELSE Did([s EXCEPT !.final_response = <<"Meeting '", ToString(title),
                                                "' scheduled for ", ToString(slot.start)>>],
                 created_event.event, <<>>, <<>>)

identify_meetings_to_reschedule(s, tokens, world, fetch_ok) ==
    LET found == find_best_meeting_to_move(tokens, s.user_id, s.user_context.user_email,
                                           s.user_context.internal_domain, world, fetch_ok)
        result == found.result[1]
    IN  IF found.raised # None
        THEN Only([s EXCEPT !.error =
                       Some(IF found.raised[1] = "ReschedulingError"
                            THEN "Unable to identify meetings for rescheduling"
                            ELSE calendar_error(found.raised[1]))])
        ELSE IF found.result # None
        THEN Only([s EXCEPT !.chosen_meeting = Some(result.candidate_event),
                            !.candidate_meetings = Some(<<result.candidate_event>>),
                            !.requires_approval = TRUE,
                            !.approval_type = Some("reschedule_meeting"),
                            !.approval_data = Some([meeting |-> Some(result.candidate_event),
                                                    reason |-> result.explanation,
                                                    proposed_time |-> None]),
                            !.final_response = format_reschedule_proposal(result)])
        ELSE Only([s EXCEPT !.final_response = <<MSG_NO_MEETINGS_FOUND>>])

draft_reschedule_email_node(s, tokens, world, freebusy_ok) ==
    LET meeting == s.chosen_meeting
        found == service_find_available_slots(tokens, s.user_id, world, 60,
                     s.user_context.constitution.working_hours, freebusy_ok)
        new_slot == found.slots[1]
        drafted == draft_reschedule_email(meeting[1], new_slot, s.user_context.user_name)
    IN  IF meeting = None
        THEN Only([s EXCEPT !.error = Some("No meeting selected for rescheduling")])
        ELSE IF found.raised # None
        THEN Only([s EXCEPT !.error = Some("Unable to draft rescheduling email")])
        ELSE IF found.slots = <<>>
        THEN Only([s EXCEPT !.final_response =
                       <<"No available slots found for rescheduling">>])
        ELSE Only([s EXCEPT !.drafted_email = Some(drafted),
                            !.proposed_new_time = Some(new_slot.start),
                            !.requires_approval = TRUE,
                            !.approval_type = Some("email_approval"),
                            !.final_response = <<"Draft Email for Review">>
                                \o drafted.subject \o drafted.body
                                \o <<"Would you like to send this email and reschedule the meeting?">>])

\* The node calls _context.rescheduling.execute_reschedule and then
\* _context.email.send_email; a method the service class does not define
\* raises AttributeError, which the node's except clause catches.
execute_reschedule(s) ==
    LET drafted_email == s.drafted_email
        failed == [s EXCEPT !.error = Some("Unable to complete rescheduling")]
        move == [meeting |-> s.chosen_meeting, new_start_time |-> drafted_email[1].new_start,
                 new_end_time |-> drafted_email[1].new_end]
        mail == [from_address |-> s.user_context.user_email,
                 to_addresses |-> drafted_email[1].recipients,
                 subject |-> drafted_email[1].subject, body |-> drafted_email[1].body]
    IN  IF drafted_email = None
        THEN Only([s EXCEPT !.error = Some("No draft email found")])
        ELSE IF "execute_reschedule" \notin ReschedulingService
        THEN Only(failed)
        ELSE IF "send_email" \notin EmailService
        THEN Did(failed, <<>>, <<move>>, <<>>)
        ELSE Did([s EXCEPT !.final_response =
                      <<"Meeting rescheduled and email sent successfully!">>],
                 <<>>, <<move>>, <<mail>>)

handle_unknown_intent(s) ==
    Only([s EXCEPT !.final_response = <<"I'm sorry, I don't understand that request.">>])

\* A formatter that keeps the text a node wrote when an error is set
return_response_keeping(s) ==
    Only(IF s.final_response = <<>>
         THEN [s EXCEPT !.final_response = <<"Request processed.">>]
         ELSE s)

return_response(s) ==
    LET shown == IF s.error # None
                 THEN [s EXCEPT !.final_response = <<FAILURE_MARKER, s.error[1]>>]
                 ELSE s
    IN  Only(IF shown.final_response = <<>>
             THEN [shown EXCEPT !.final_response = <<"Request processed.">>]
             ELSE shown)

(***************************************************************************)
(* graph/graph_refactored.py                                               *)
(***************************************************************************)

NODES == {"load_context", "determine_intent", "assess_busyness", "check_constitution",
          "find_and_book", "identify_meetings", "draft_email", "execute_reschedule",
          "handle_unknown", "return_response"}
END == "__end__"
ENTRY_POINT == "load_context"
INTERRUPT_BEFORE == {"execute_reschedule"}

route_after_intent(s) ==
    IF s.intent = Some(INTENT_SCHEDULE_MEETING) THEN "assess_busyness"
    ELSE IF s.intent = Some(INTENT_RESCHEDULE_MEETING) THEN "identify_meetings"
    ELSE IF s.intent \in {Some(INTENT_CHECK_AVAILABILITY), Some(INTENT_ASSESS_BUSYNESS)}
    THEN "assess_busyness"
    ELSE "handle_unknown"

\* A routing after the busyness check that does not look at is_busy
route_after_busyness_ignoring_busy(s) ==
    IF s.intent \in {Some(INTENT_ASSESS_BUSYNESS), Some(INTENT_CHECK_AVAILABILITY)}
    THEN "return_response"
    ELSE IF s.intent = Some(INTENT_SCHEDULE_MEETING) THEN "check_constitution"
    ELSE "return_response"

route_after_busyness_check(s) ==
    IF s.intent \in {Some(INTENT_ASSESS_BUSYNESS), Some(INTENT_CHECK_AVAILABILITY)}
    THEN "return_response"
    ELSE IF s.intent = Some(INTENT_SCHEDULE_MEETING)
    THEN IF s.is_busy = Some(TRUE) THEN "identify_meetings" ELSE "check_constitution"
    ELSE "return_response"

\* A routing that goes on to the booking whatever the check found
route_to_booking(s) == "find_and_book"

route_after_constitution_check(s) ==
    IF s.requires_approval THEN "return_response" ELSE "find_and_book"

route_after_identify_meetings(s) ==
    IF s.chosen_meeting # None THEN "draft_email" ELSE "return_response"

\* add_conditional_edges: the path map sends a routing result to its node
conditional_edge(result, path_map) ==
    IF result \in path_map THEN result ELSE "KeyError"

\* Edges that lead from the formatter back to the entry point
next_node_again(node, s) ==
    IF node = "return_response" THEN ENTRY_POINT ELSE "return_response"

\* Edges with one more: from the drafted e-mail on to its execution
next_node_to_execute(node, s) ==
    CASE node = "load_context" -> "determine_intent"
      [] node = "determine_intent" -> route_after_intent(s)
      [] node = "assess_busyness" -> route_after_busyness_check(s)
      [] node = "check_constitution" -> route_after_constitution_check(s)
      [] node = "identify_meetings" -> route_after_identify_meetings(s)
      [] node = "draft_email" -> "execute_reschedule"
      [] node = "return_response" -> END
      [] OTHER -> "return_response"

\* The edge taken out of a node, in the state the node left
next_node(node, s) ==
    CASE node = "load_context" -> "determine_intent"
      [] node = "determine_intent" ->
            conditional_edge(route_after_intent(s),
                             {"assess_busyness", "identify_meetings", "handle_unknown"})
      [] node = "assess_busyness" ->
            conditional_edge(route_after_busyness_check(s),
                             {"identify_meetings", "check_constitution", "return_response"})
      [] node = "check_constitution" ->
            conditional_edge(route_after_constitution_check(s),
                             {"find_and_book", "return_response"})
      [] node = "find_and_book" -> "return_response"
      [] node = "identify_meetings" ->
            conditional_edge(route_after_identify_meetings(s),
                             {"draft_email", "return_response"})
      [] node = "draft_email" -> "return_response"
      [] node = "execute_reschedule" -> "return_response"
      [] node = "handle_unknown" -> "return_response"
      [] node = "return_response" -> END

\* workflow.add_node: the function a node name runs.  o holds the outcomes of
\* the external calls the node makes.
run_node(node, s, tokens, world, o) ==
    CASE node = "load_context" -> load_user_context(s)
      [] node = "determine_intent" -> determine_intent(s, o.llm)
      [] node = "assess_busyness" -> assess_schedule_busyness(s, tokens, world, o.fetch_ok)
      [] node = "check_constitution" -> check_meeting_against_constitution(s)
      [] node = "find_and_book" ->
            find_and_book_slot(s, tokens, world, o.freebusy_ok, o.insert_ok)
      [] node = "identify_meetings" ->
            identify_meetings_to_reschedule(s, tokens, world, o.fetch_ok)
      [] node = "draft_email" -> draft_reschedule_email_node(s, tokens, world, o.freebusy_ok)
      [] node = "execute_reschedule" -> execute_reschedule(s)
      [] node = "handle_unknown" -> handle_unknown_intent(s)
      [] node = "return_response" -> return_response(s)

(***************************************************************************)
(* The environment: the registered user, what the LLM may answer, and the  *)
(* calendars the provider may hold when a request arrives                  *)
(***************************************************************************)

ME == Email("me", "corp.com")
COLLEAGUE == Email("ann", "corp.com")
CLIENT == Email("bob", "client.com")

\* The users table: one registered user
Users == {"u1"}
user_row(user_id) ==
    [user_id |-> user_id, email |-> ME,
     internal_domain |-> [domain |-> "corp.com", caps |-> FALSE],
     timezone |-> "America/Los_Angeles"]

\* The user ids a request body may carry
RequestUsers == Users \cup {"ghost"}

Meeting(proposed_time, meeting_type, duration) ==
    Some([is_dict |-> TRUE, title |-> Some("Sync"), proposed_time |-> proposed_time,
          meeting_type |-> meeting_type, duration |-> duration])

\* "entities" that is not a JSON object but a non-empty list or string
EntityList ==
    Some([is_dict |-> FALSE, title |-> None, proposed_time |-> None,
          meeting_type |-> None, duration |-> None])

\* The entities the LLM may extract: day 7 is a Monday, day 12 a Saturday
Entities ==
    { None,
      Meeting(None, None, None),
      Meeting(Some(Iso(7, 10, 0)), None, None),
      Meeting(Some(Iso(7, 10, 0)), Some("business"), Some(30)),
      Meeting(Some(Iso(7, 8, 0)), None, None),
      Meeting(Some(Iso(7, 8, 0)), Some("personal"), None),
      Meeting(Some(Iso(7, 18, 0)), Some("business"), None),
      Meeting(Some(Iso(12, 10, 0)), None, None),
      Meeting(Some(Iso(12, 10, 0)), Some("personal"), None),
      Meeting(Some(NotIso), None, None) }

IntentValues == {INTENT_SCHEDULE_MEETING, INTENT_RESCHEDULE_MEETING,
                 INTENT_CHECK_AVAILABILITY, INTENT_ASSESS_BUSYNESS, INTENT_UNKNOWN,
                 "cancel_meeting"}

\* What detect_intent may return, and the case that it raises
LLMOutcomes ==
    { [raises |-> FALSE, intent |-> INTENT_SCHEDULE_MEETING, entities |-> e] : e \in Entities }
    \cup { [raises |-> FALSE, intent |-> i, entities |-> e] :
             i \in IntentValues, e \in {None, Meeting(Some(Iso(7, 10, 0)), None, None)} }
    \cup { [raises |-> TRUE, intent |-> INTENT_UNKNOWN, entities |-> None] }

Attendee(email, status, organizer) ==
    [email |-> email, responseStatus |-> status, organizer |-> organizer]

Event(id, start, end, attendees) ==
    [id |-> id, summary |-> id, start |-> start, end |-> end, attendees |-> attendees,
     calendar_id |-> "me@corp.com"]

Calendar(busy) == [busy |-> busy]
Busy(start, end) == [start |-> start, end |-> end]

\* An empty calendar on a Monday at 10:00
EmptyMonday ==
    [now |-> fromisoformat(Iso(0, 10, 0)), events |-> <<>>, busy |-> <<Calendar(<<>>)>>]

\* The clock and the provider's answers when a request arrives.  Day 0 is a
\* Monday; events are in start order, as the provider returns them.
Worlds ==
    { \* an empty calendar on Monday morning
      EmptyMonday,
      \* an empty calendar on Saturday morning
      [now |-> fromisoformat(Iso(5, 10, 0)), events |-> <<>>, busy |-> <<Calendar(<<>>)>>],
      \* an empty calendar on Monday evening
      [now |-> fromisoformat(Iso(0, 20, 0)), events |-> <<>>, busy |-> <<Calendar(<<>>)>>],
      \* one meeting that starts before the working day and fills the window
      [now |-> fromisoformat(Iso(0, 8, 0)),
       events |-> << Event("offsite", Iso(0, 8, 0), Iso(8, 8, 0),
                           <<Attendee(ME, "accepted", TRUE)>>) >>,
       busy |-> <<Calendar(<<Busy(Iso(0, 8, 0), Iso(7, 8, 0))>>)>>],
      \* a two-day workshop with a colleague, and a block the user holds alone
      [now |-> fromisoformat(Iso(0, 10, 0)),
       events |-> << Event("workshop", Iso(0, 12, 0), Iso(2, 12, 0),
                           <<Attendee(COLLEAGUE, "accepted", TRUE),
                             Attendee(ME, "accepted", FALSE)>>),
                     Event("focus", Iso(1, 10, 0), Iso(1, 11, 0),
                           <<Attendee(ME, "accepted", TRUE)>>) >>,
       busy |-> <<Calendar(<<Busy(Iso(0, 12, 0), Iso(2, 12, 0))>>)>>],
      \* a three-day client visit the user has not accepted
      [now |-> fromisoformat(Iso(0, 10, 0)),
       events |-> << Event("visit", Iso(0, 12, 0), Iso(3, 12, 0),
                           <<Attendee(CLIENT, "accepted", TRUE),
                             Attendee(ME, "needsAction", FALSE)>>) >>,
       busy |-> <<Calendar(<<Busy(Iso(0, 12, 0), Iso(3, 12, 0))>>)>>] }

\* The outcomes of the external calls of one node
Outcomes(node) ==
    [ llm : IF node = "determine_intent" THEN LLMOutcomes
            ELSE {[raises |-> FALSE, intent |-> INTENT_UNKNOWN, entities |-> None]},
      fetch_ok : IF node \in {"assess_busyness", "identify_meetings"} THEN BOOLEAN ELSE {TRUE},
      freebusy_ok : IF node \in {"find_and_book", "draft_email"} THEN BOOLEAN ELSE {TRUE},
      insert_ok : IF node = "find_and_book" THEN BOOLEAN ELSE {TRUE} ]

(***************************************************************************)
(* The state                                                               *)
(***************************************************************************)

VARIABLES
    st,               \* the AgentState of the thread, as its checkpoint holds it
    pc,               \* the node the thread runs next, END when none is pending
    call,             \* the agent request being served: None, or its endpoint
    visited,          \* the nodes the graph invocation in progress has run
    did,              \* the events it created, meetings it moved, e-mails it sent
    world,            \* the clock and the provider's calendars for the invocation
    resp,             \* the HTTP response of the agent request last answered
    has_thread,       \* a thread has been started
    oauth_tokens,     \* the rows of table oauth_tokens
    scheduling_rules, \* the rows of table scheduling_rules
    req,              \* the database requests in flight, one per connection
    next_uuid,        \* the row ids handed out
    started,          \* the database requests received
    args,             \* the arguments of a direct call of a tool function
    result,           \* what the call returned
    node_context,     \* nodes._context: None, or the session its services hold
    session_used      \* per request, the sessions its nodes reached the database through

wf_vars == <<st, pc, call, visited, did, world, resp, has_thread>>
db_vars == <<oauth_tokens, scheduling_rules, req, next_uuid, started>>
fn_vars == <<args, result>>
ctx_vars == <<node_context, session_used>>
vars == <<st, pc, call, visited, did, world, resp, has_thread,
          oauth_tokens, scheduling_rules, req, next_uuid, started, args, result,
          node_context, session_used>>

\* The connections that may serve database requests at the same time
Connections == {"c1", "c2"}

\* The database requests one behaviour receives
MaxRequests == 2

\* The session of the requests of a client that sends one request at a time
AgentSession == "c1"

\* The nodes that go to the credentials manager of nodes._context
CredentialNodes == {"assess_busyness", "find_and_book", "identify_meetings", "draft_email"}

(***************************************************************************)
(* main_refactored.py: the agent endpoints                                 *)
(***************************************************************************)

\* user_context as agent_query and agent_invoke build it
build_user_context(user) ==
    [ user_email |-> user.email,
      internal_domain |-> user.internal_domain,
      timezone |-> user.timezone,
      calendars |-> <<user.email>>,
      constitution |-> get_default_constitution,
      user_name |-> user.email.name ]

\* The AgentState a new conversation starts from
initial_state(user_id, user_context) ==
    [ original_request |-> "prompt",
      user_id |-> user_id,
      user_context |-> user_context,
      intent |-> None,
      is_busy |-> None,
      density_percentage |-> None,
      busy_message |-> None,
      candidate_meetings |-> None,
      chosen_meeting |-> None,
      proposed_new_time |-> None,
      drafted_email |-> None,
      requires_approval |-> FALSE,
      approval_type |-> None,
      approval_data |-> None,
      new_meeting |-> None,
      final_response |-> <<>>,
      error |-> None,
      messages |-> <<>> ]

NoResponse == [endpoint |-> "none", user_id |-> "", status |-> 0, response |-> <<>>,
               requires_approval |-> FALSE, approval_type |-> None]

Nothing == [created |-> <<>>, moved |-> <<>>, sent |-> <<>>]

\* No request is being served
Quiet == call = None /\ \A c \in Connections : req[c].op = "idle"

\* graph.ainvoke has returned: nothing is pending, or the graph stands at an
\* interrupt it was not resumed over
Returned ==
    /\ call # None
    /\ \/ pc = END
       \/ pc \in INTERRUPT_BEFORE /\ ~call[1].resume

\* graph.ainvoke(initial_state, config) on a new thread
Invoke(endpoint, user_id) ==
    /\ st' = initial_state(user_id, build_user_context(user_row(user_id)))
    /\ pc' = ENTRY_POINT
    /\ call' = Some([endpoint |-> endpoint, user_id |-> user_id, resume |-> FALSE])
    /\ visited' = <<>>
    /\ did' = Nothing
    /\ world' \in Worlds
    /\ has_thread' = TRUE
    /\ resp' = NoResponse

\* graph.ainvoke(None, config): the thread goes on from its checkpoint
Resume(endpoint, user_id) ==
    /\ call' = Some([endpoint |-> endpoint, user_id |-> user_id, resume |-> TRUE])
    /\ visited' = <<>>
    /\ did' = Nothing
    /\ resp' = NoResponse
    /\ UNCHANGED <<st, pc, world, has_thread>>

\* initialize_graph(session): create_agent_graph builds the services on the
\* session and set_node_context puts them in the module global
initialize_graph(session) == node_context' = Some(session)

\* get_session hands the request a session; nothing has gone through it yet
get_session(session) == session_used' = [session_used EXCEPT ![session] = {}]

\* POST /agent/query, up to the graph invocation
agent_query ==
    /\ Quiet
    /\ \E user_id \in RequestUsers, with_thread_id \in BOOLEAN :
          IF user_id \notin Users
          THEN /\ resp' = [NoResponse EXCEPT !.endpoint = "query", !.user_id = user_id,
                                             !.status = 404]
               /\ UNCHANGED <<st, pc, call, visited, did, world, has_thread>>
          ELSE IF with_thread_id
          THEN has_thread /\ Resume("query", user_id)
          ELSE Invoke("query", user_id)
    /\ UNCHANGED db_vars
    /\ get_session(AgentSession)
    /\ initialize_graph(AgentSession)
    /\ UNCHANGED fn_vars

\* POST /agent/invoke for an authenticated user, up to the graph invocation
agent_invoke ==
    /\ Quiet
    /\ \E user_id \in Users : Invoke("invoke", user_id)
    /\ UNCHANGED db_vars
    /\ get_session(AgentSession)
    /\ initialize_graph(AgentSession)
    /\ UNCHANGED fn_vars

\* POST /agent/approve, up to the graph invocation.  HTTPException is an
\* Exception, so the handler's except clause turns the 404 into a 500.
approve_action ==
    /\ Quiet
    /\ \E user_id \in RequestUsers, approved \in BOOLEAN :
          IF user_id \notin Users
          THEN /\ resp' = [NoResponse EXCEPT !.endpoint = "approve", !.user_id = user_id,
                                             !.status = 500,
                                             !.response = <<"Approval error">>]
               /\ UNCHANGED <<st, pc, call, visited, did, world, has_thread>>
          ELSE IF approved
          THEN has_thread /\ Resume("approve", user_id)
          ELSE /\ resp' = [NoResponse EXCEPT !.endpoint = "approve", !.user_id = user_id,
                                             !.status = 200,
                                             !.response = <<"Action cancelled by user.">>]
               /\ UNCHANGED <<st, pc, call, visited, did, world, has_thread>>
    /\ UNCHANGED db_vars
    /\ get_session(AgentSession)
    /\ initialize_graph(AgentSession)
    /\ UNCHANGED fn_vars

\* What a step leaves behind.  out is what the node returned: the edge out
\* of the node is taken, or the node's exception leaves graph.ainvoke and the
\* handler's except clause answers 500 while the checkpoint stays as it was.
after_node(out, s, node, done, request, response) ==
    IF out.raised # None
    THEN [st |-> s, pc |-> node, did |-> done, call |-> None,
          resp |-> [NoResponse EXCEPT !.endpoint = request[1].endpoint,
                                      !.user_id = request[1].user_id,
                                      !.status = 500,
                                      !.response =
                                          IF request[1].endpoint = "query"
                                          THEN <<"Internal server error">>
                                          ELSE IF request[1].endpoint = "approve"
                                          THEN <<"Approval error">>
                                          ELSE <<out.raised[1]>>]]
    ELSE [st |-> out.st, pc |-> next_node(node, out.st),
          did |-> [created |-> done.created \o out.created,
                   moved |-> done.moved \o out.moved,
                   sent |-> done.sent \o out.sent],
          call |-> request, resp |-> response]

\* One step of the graph: the pending node runs
Step ==
    /\ call # None
    /\ pc \in NODES
    /\ ~Returned
    /\ \E o \in Outcomes(pc) :
          LET after == after_node(run_node(pc, st, oauth_tokens, world, o),
                                  st, pc, did, call, resp)
          IN  /\ st' = after.st
              /\ pc' = after.pc
              /\ did' = after.did
              /\ call' = after.call
              /\ resp' = after.resp
    /\ visited' = Append(visited, pc)
    /\ session_used' = IF pc \in CredentialNodes
                       THEN [session_used EXCEPT ![AgentSession] = @ \cup {node_context[1]}]
                       ELSE session_used
    /\ UNCHANGED <<world, has_thread>>
    /\ UNCHANGED db_vars
    /\ UNCHANGED <<fn_vars, node_context>>

\* The handler's answer once graph.ainvoke has returned
Respond ==
    /\ Returned
    /\ resp' = IF call[1].endpoint = "approve"
               THEN [endpoint |-> "approve", user_id |-> call[1].user_id, status |-> 200,
                     response |-> st.final_response,
                     requires_approval |-> FALSE, approval_type |-> None]
               ELSE [endpoint |-> call[1].endpoint, user_id |-> call[1].user_id,
                     status |-> 200,
                     response |-> IF st.error # None
                                  THEN <<FAILURE_MARKER, st.error[1]>>
                                  ELSE st.final_response,
                     requires_approval |-> st.requires_approval,
                     approval_type |-> st.approval_type]
    /\ call' = None
    /\ UNCHANGED <<st, pc, visited, did, world, has_thread>>
    /\ UNCHANGED db_vars
    /\ UNCHANGED <<fn_vars, ctx_vars>>

(***************************************************************************)
(* The handlers that write the database, one action per stretch between    *)
(* two awaits.  c is the connection (the session) of the request.          *)
(***************************************************************************)

IdleRequest == [op |-> "idle", step |-> "idle", user_id |-> "", token |-> 0,
                sections |-> <<>>, staged |-> <<>>, found |-> None]

\* The settings a client may post: new work hours, or work hours with new
\* protected blocks and general rules
Bodies ==
    { [work_hours |-> Some([start |-> HM(8, 0), end |-> HM(16, 0)]),
       protected_time_blocks |-> None, scheduling_rules |-> None],
      [work_hours |-> Some([start |-> HM(10, 0), end |-> HM(18, 0)]),
       protected_time_blocks |-> None, scheduling_rules |-> None],
      [work_hours |-> Some([start |-> HM(8, 0), end |-> HM(16, 0)]),
       protected_time_blocks |-> Some([blocks |-> <<>>]),
       scheduling_rules |-> Some([no_weekend_meetings |-> FALSE])] }

\* The sections of a body that update_settings writes, in its order
sections_of(body) ==
    (IF body.work_hours # None
     THEN <<[rule_type |-> "WORK_HOURS", rule_definition |-> body.work_hours[1]]>>
     ELSE <<>>)
    \o (IF body.protected_time_blocks # None
        THEN <<[rule_type |-> "PROTECTED_TIME",
                rule_definition |-> body.protected_time_blocks[1]]>>
        ELSE <<>>)
    \o (IF body.scheduling_rules # None
        THEN <<[rule_type |-> "GENERAL", rule_definition |-> body.scheduling_rules[1]]>>
        ELSE <<>>)

\* GET /auth/callback: exchange_code_for_token has fetched a token from the
\* provider and enters save_credentials
google_auth_callback(c) ==
    /\ req[c].op = "idle"
    /\ started < MaxRequests
    /\ \E user_id \in Users :
          req' = [req EXCEPT ![c] = [IdleRequest EXCEPT !.op = "callback", !.step = "select",
                                                       !.user_id = user_id,
                                                       !.token = started + 1]]
    /\ started' = started + 1
    /\ UNCHANGED <<oauth_tokens, scheduling_rules, next_uuid>>
    /\ UNCHANGED wf_vars
    /\ UNCHANGED <<fn_vars, ctx_vars>>

\* save_credentials: await session.execute(select ...); scalar_one_or_none()
save_credentials_select(c) ==
    /\ req[c].op = "callback"
    /\ req[c].step = "select"
    /\ LET found == scalar_one_or_none(select_tokens(oauth_tokens, req[c].user_id))
       IN  req' = [req EXCEPT ![c] =
                      IF found.raised # None THEN IdleRequest
                      ELSE [@ EXCEPT !.step = "commit",
                                     !.found = IF found.row = None THEN None
                                               ELSE Some(found.row[1].token_id)]]
    /\ UNCHANGED <<oauth_tokens, scheduling_rules, next_uuid, started>>
    /\ UNCHANGED wf_vars
    /\ UNCHANGED <<fn_vars, ctx_vars>>

\* save_credentials: the row found is updated, or a new row is added; commit
save_credentials_commit(c) ==
    /\ req[c].op = "callback"
    /\ req[c].step = "commit"
    /\ IF req[c].found # None
       THEN /\ oauth_tokens' = { IF r.token_id = req[c].found[1]
                                 THEN [r EXCEPT !.access_token = req[c].token,
                                                !.refresh_token = Some("refresh"),
                                                !.expiry = Some(60)]
                                 ELSE r : r \in oauth_tokens }
            /\ UNCHANGED next_uuid
       ELSE /\ oauth_tokens' = oauth_tokens \cup
                                 { [token_id |-> next_uuid, user_id |-> req[c].user_id,
                                    provider |-> "google", access_token |-> req[c].token,
                                    refresh_token |-> Some("refresh"),
                                    expiry |-> Some(60)] }
            /\ next_uuid' = next_uuid + 1
    /\ req' = [req EXCEPT ![c] = IdleRequest]
    /\ UNCHANGED <<scheduling_rules, started>>
    /\ UNCHANGED wf_vars
    /\ UNCHANGED <<fn_vars, ctx_vars>>

\* POST /api/v1/settings for an authenticated user, up to the first select
update_settings(c) ==
    /\ req[c].op = "idle"
    /\ started < MaxRequests
    /\ \E user_id \in Users, body \in Bodies :
          req' = [req EXCEPT ![c] = [IdleRequest EXCEPT !.op = "settings", !.step = "select",
                                                       !.user_id = user_id,
                                                       !.sections = sections_of(body)]]
    /\ started' = started + 1
    /\ UNCHANGED <<oauth_tokens, scheduling_rules, next_uuid>>
    /\ UNCHANGED wf_vars
    /\ UNCHANGED <<fn_vars, ctx_vars>>

\* select(SchedulingRule).where(user_id == ..., rule_type == ...)
select_rules(rules, user_id, rule_type) ==
    { r \in rules : r.user_id = user_id /\ r.rule_type = rule_type }

\* update_settings: the select of the next section, and the change it stages
\* in the session (a row to update, or a row to add)
update_settings_select(c) ==
    /\ req[c].op = "settings"
    /\ req[c].step = "select"
    /\ LET section == req[c].sections[1]
           found == scalar_one_or_none(select_rules(scheduling_rules, req[c].user_id,
                                                    section.rule_type))
       IN  req' = [req EXCEPT ![c] =
                      IF found.raised # None THEN IdleRequest
                      ELSE [@ EXCEPT !.sections = Tail(@),
                                     !.step = IF Len(req[c].sections) = 1 THEN "commit"
                                              ELSE "select",
                                     !.staged = Append(@,
                                         [rule_type |-> section.rule_type,
                                          rule_definition |-> section.rule_definition,
                                          found |-> IF found.row = None THEN None
                                                    ELSE Some(found.row[1].rule_id)])]]
    /\ UNCHANGED <<oauth_tokens, scheduling_rules, next_uuid, started>>
    /\ UNCHANGED wf_vars
    /\ UNCHANGED <<fn_vars, ctx_vars>>

\* The rows after the session's staged changes are written
commit_rules(rules, staged, user_id, first_uuid) ==
    { IF \E i \in DOMAIN staged : staged[i].found = Some(r.rule_id)
      THEN [r EXCEPT !.rule_definition =
               staged[CHOOSE i \in DOMAIN staged : staged[i].found = Some(r.rule_id)]
                   .rule_definition]
      ELSE r : r \in rules }
    \cup { [rule_id |-> first_uuid + i - 1, user_id |-> user_id,
            rule_type |-> staged[i].rule_type,
            rule_definition |-> staged[i].rule_definition] :
           i \in { j \in DOMAIN staged : staged[j].found = None } }

\* update_settings: await session.commit()
update_settings_commit(c) ==
    /\ req[c].op = "settings"
    /\ req[c].step = "commit"
    /\ scheduling_rules' = commit_rules(scheduling_rules, req[c].staged, req[c].user_id,
                                        next_uuid)
    /\ next_uuid' = next_uuid + Len(req[c].staged)
    /\ req' = [req EXCEPT ![c] = IdleRequest]
    /\ UNCHANGED <<oauth_tokens, started>>
    /\ UNCHANGED wf_vars
    /\ UNCHANGED <<fn_vars, ctx_vars>>

(***************************************************************************)
(* The specifications                                                      *)
(***************************************************************************)

\* The service after start-up: no thread, empty tables, no request
InitService ==
    /\ st = initial_state("u1", build_user_context(user_row("u1")))
    /\ pc = END
    /\ call = None
    /\ visited = <<>>
    /\ did = Nothing
    /\ world = EmptyMonday
    /\ resp = NoResponse
    /\ has_thread = FALSE
    /\ oauth_tokens = {}
    /\ scheduling_rules = {}
    /\ req = [c \in Connections |-> IdleRequest]
    /\ next_uuid = 1
    /\ started = 0
    /\ node_context = None
    /\ session_used = [c \in Connections |-> {}]

Init ==
    /\ InitService
    /\ args = None
    /\ result = None

\* One client that sends a request when the previous one is answered
Next ==
    \/ agent_query
    \/ agent_invoke
    \/ approve_action
    \/ Step
    \/ Respond
    \/ Quiet /\ google_auth_callback("c1")
    \/ save_credentials_select("c1")
    \/ save_credentials_commit("c1")
    \/ Quiet /\ update_settings("c1")
    \/ update_settings_select("c1")
    \/ update_settings_commit("c1")

Spec == Init /\ [][Next]_vars

\* The agent endpoints and the code exchange, the only writer of a table the
\* nodes read
NextAgent ==
    \/ agent_query
    \/ agent_invoke
    \/ approve_action
    \/ Step
    \/ Respond
    \/ Quiet /\ google_auth_callback("c1")
    \/ save_credentials_select("c1")
    \/ save_credentials_commit("c1")

\* Every graph invocation is run on and every handler answers
FairSpec ==
    Init /\ [][NextAgent]_vars /\ WF_vars(Step) /\ WF_vars(Respond)

\* Clients that write credentials and settings at the same time
NextDB ==
    \E c \in Connections :
        \/ google_auth_callback(c)
        \/ save_credentials_select(c)
        \/ save_credentials_commit(c)
        \/ update_settings(c)
        \/ update_settings_select(c)
        \/ update_settings_commit(c)

SpecDB == Init /\ [][NextDB]_vars

(***************************************************************************)
(* check_constitution called directly, as the unit tests call it           *)
(***************************************************************************)

\* Constitutions a user may have: the default; Wednesday as a personal day
\* with a block on every day; no personal day and a Saturday block; late
\* working hours and no block
Constitutions ==
    { get_default_constitution,
      [get_default_constitution EXCEPT
          !.personal_time_rules = {"wednesday"},
          !.protected_time_blocks =
              << [name |-> "Lunch", start |-> HM(12, 0), end |-> HM(13, 0),
                  days |-> WEEKDAYS],
                 [name |-> "Kids School Run", start |-> HM(7, 30), end |-> HM(8, 30),
                  days |-> Range(DAY_NAMES)] >>],
      [get_default_constitution EXCEPT
          !.personal_time_rules = {},
          !.protected_time_blocks =
              << [name |-> "Market", start |-> HM(9, 0), end |-> HM(12, 0),
                  days |-> {"saturday"}] >>],
      [get_default_constitution EXCEPT
          !.working_hours = [start |-> HM(10, 0), end |-> HM(18, 0)],
          !.protected_time_blocks = <<>>] }

MeetingTypes == {"business", "personal", "social"}

\* Monday, Wednesday, Saturday and Sunday, at times on and around the limits
MeetingTimes ==
    { Iso(d, t[1], t[2]) :
        d \in {7, 9, 12, 13},
        t \in {<<7, 0>>, <<8, 0>>, <<8, 30>>, <<9, 0>>, <<12, 0>>, <<17, 0>>,
               <<17, 30>>, <<22, 0>>} }

ConstitutionArgs ==
    [meeting_time_str : MeetingTimes, constitution : Constitutions,
     meeting_type : MeetingTypes]

InitConstitution ==
    /\ InitService
    /\ args \in {Some(a) : a \in ConstitutionArgs}
    /\ result = None

\* The call returns
call_check_constitution ==
    /\ args # None
    /\ result = None
    /\ result' = Some(check_constitution(args[1].meeting_time_str, args[1].constitution,
                                         args[1].meeting_type))
    /\ UNCHANGED args
    /\ UNCHANGED <<wf_vars, db_vars, ctx_vars>>

\* The next call is made
next_call ==
    /\ result # None
    /\ args' \in {Some(a) : a \in ConstitutionArgs}
    /\ result' = None
    /\ UNCHANGED <<wf_vars, db_vars, ctx_vars>>

NextConstitution ==
    \/ call_check_constitution
    \/ next_call

SpecConstitution == InitConstitution /\ [][NextConstitution]_vars

(***************************************************************************)
(* The properties                                                          *)
(***************************************************************************)

\* A graph invocation that ran nodes has reached END
RunEnded == pc = END /\ visited # <<>>

\* The run was for a schedule_meeting request on a schedule found not busy
ScheduleNotBusy ==
    /\ st.intent = Some(INTENT_SCHEDULE_MEETING)
    /\ st.is_busy = Some(FALSE)

\* The extracted meeting has a proposed time that parses
HasProposedTime ==
    /\ st.new_meeting # None
    /\ st.new_meeting[1].proposed_time # None
    /\ st.new_meeting[1].proposed_time[1].valid

ProposedTime == fromisoformat(st.new_meeting[1].proposed_time[1])

OnPersonalDay == day_name(ProposedTime) \in st.user_context.constitution.personal_time_rules

InProtectedBlock ==
    \E i \in DOMAIN st.user_context.constitution.protected_time_blocks :
        LET block == st.user_context.constitution.protected_time_blocks[i]
        IN  /\ day_name(ProposedTime) \in block.days
            /\ strptime(block.start) <= time_of(ProposedTime)
            /\ time_of(ProposedTime) <= strptime(block.end)

InWorkingHours ==
    /\ strptime(st.user_context.constitution.working_hours.start) <= time_of(ProposedTime)
    /\ time_of(ProposedTime) <= strptime(st.user_context.constitution.working_hours.end)

\* C1: a run that ends with requires_approval set has created no event, moved
\* no meeting and sent no e-mail.
C1_AskedNotActed == (RunEnded /\ st.requires_approval) => did = Nothing

\* The booking node ran, found a slot that needs an override, and only asked
C1_Witness ==
    /\ RunEnded
    /\ st.requires_approval
    /\ "find_and_book" \in Range(visited)
    /\ did = Nothing

\* C2: a schedule_meeting run on a schedule that is not busy, with a proposed
\* time inside a protected block on a day that is not a personal day, ends
\* with requires_approval set, approval type protected_time_override and the
\* proposed time in the approval data, and never runs find_and_book.
C2_ProtectedTimeAsks ==
    (RunEnded /\ ScheduleNotBusy /\ HasProposedTime /\ ~OnPersonalDay /\ InProtectedBlock)
    => /\ st.requires_approval
       /\ st.approval_type = Some("protected_time_override")
       /\ st.approval_data # None
       /\ st.approval_data[1].proposed_time = st.new_meeting[1].proposed_time
       /\ "find_and_book" \notin Range(visited)

C2_Witness ==
    /\ RunEnded /\ ScheduleNotBusy /\ HasProposedTime /\ ~OnPersonalDay /\ InProtectedBlock
    /\ st.approval_type = Some("protected_time_override")
    /\ visited[Len(visited) - 1] = "check_constitution"

\* C3: a schedule_meeting run on a schedule whose density is below the
\* threshold, with a proposed time that complies with the constitution and no
\* failure of a service, ends with an event created and requires_approval
\* false.
C3_CompliantIsBooked ==
    (/\ RunEnded /\ ScheduleNotBusy /\ HasProposedTime
     /\ ~OnPersonalDay /\ ~InProtectedBlock /\ InWorkingHours
     /\ st.error = None)
    => /\ did.created # <<>>
       /\ ~st.requires_approval

\* C4: the formatter leaves the failure marker and the error when an error is
\* set, else the text a node wrote, else "Request processed."; a run that has
\* ended has a final_response that is not empty.
C4_ResponseText ==
    /\ [](RunEnded => st.final_response # <<>>)
    /\ [][(pc = "return_response" /\ pc' = END) =>
             st'.final_response =
                 IF st.error # None THEN <<FAILURE_MARKER, st.error[1]>>
                 ELSE IF st.final_response # <<>> THEN st.final_response
                 ELSE <<"Request processed.">>]_vars

\* A run in which a node wrote a text and an error took its place
C4_Witness ==
    /\ RunEnded
    /\ "handle_unknown" \in Range(visited)
    /\ st.error # None
    /\ st.final_response = <<FAILURE_MARKER, st.error[1]>>

\* No node occurs twice among the nodes the invocation has run
NoRevisit ==
    \A i, j \in DOMAIN visited : i # j => visited[i] # visited[j]

C6_ApproveExecutes ==
    (/\ call # None
     /\ call[1].endpoint = "approve"
     /\ Returned
     /\ st.requires_approval
     /\ st.approval_type = Some("email_approval"))
    => /\ "execute_reschedule" \in Range(visited)
       /\ did.moved # <<>>
       /\ did.sent # <<>>

\* C7: no user has two rows in oauth_tokens.
C7_OneTokenPerUser ==
    \A user_id \in Users : Cardinality(select_tokens(oauth_tokens, user_id)) <= 1

RuleTypes == {"WORK_HOURS", "PROTECTED_TIME", "GENERAL"}

\* C8: no user has two rows of one rule type in scheduling_rules.
C8_OneRulePerType ==
    \A user_id \in Users, rule_type \in RuleTypes :
        Cardinality(select_rules(scheduling_rules, user_id, rule_type)) <= 1

\* C9: a run of a user who has saved working hours evaluates meetings against
\* the saved working hours.
C9_SavedHoursUsed ==
    \A r \in scheduling_rules :
        (pc \in NODES /\ r.user_id = st.user_id /\ r.rule_type = "WORK_HOURS")
        => st.user_context.constitution.working_hours = r.rule_definition

\* The weekday of the meeting of the call is a personal-time day
ArgsOnPersonalDay ==
    day_name(fromisoformat(args[1].meeting_time_str))
        \in args[1].constitution.personal_time_rules

\* C10: on a personal-time day check_constitution denies a business meeting
\* with weekend_override and allows a personal meeting, whatever the time,
\* the blocks and the working hours; on another day the result is the one
\* for a business meeting, whatever the meeting type.
C10_PersonalDayFirst ==
    result # None =>
        IF ArgsOnPersonalDay
        THEN /\ args[1].meeting_type = "business" =>
                   /\ ~result[1].is_allowed
                   /\ result[1].approval_type = Some("weekend_override")
             /\ args[1].meeting_type = "personal" =>
                   /\ result[1].is_allowed
                   /\ result[1].approval_type = None
        ELSE result[1] = check_constitution(args[1].meeting_time_str,
                                            args[1].constitution, "business")

\* A personal meeting on a personal day, inside a protected block and outside
\* the working hours, is allowed
C10_Witness ==
    /\ result # None
    /\ ArgsOnPersonalDay
    /\ args[1].meeting_type = "personal"
    /\ first_blocking(fromisoformat(args[1].meeting_time_str),
                      args[1].constitution.protected_time_blocks) # 0
    /\ time_of(fromisoformat(args[1].meeting_time_str))
           < strptime(args[1].constitution.working_hours.start)
    /\ result[1].is_allowed


\* The weekday and the time of day of the meeting of the call
ArgsDay == day_name(fromisoformat(args[1].meeting_time_str))
ArgsTime == time_of(fromisoformat(args[1].meeting_time_str))

\* Some block of the call's constitution has the weekday in its days and the
\* time of day between its start and its end, both included
ArgsInBlock ==
    \E i \in DOMAIN args[1].constitution.protected_time_blocks :
        LET block == args[1].constitution.protected_time_blocks[i]
        IN  /\ ArgsDay \in block.days
            /\ strptime(block.start) <= ArgsTime
            /\ ArgsTime <= strptime(block.end)

ArgsOutsideHours ==
    \/ ArgsTime < strptime(args[1].constitution.working_hours.start)
    \/ ArgsTime > strptime(args[1].constitution.working_hours.end)

\* C11: on a weekday that is not personal time check_constitution denies with
\* protected_time_override exactly when a block holds the weekday and the
\* time (ends included), else denies with work_hours_override exactly when
\* the time is outside the working hours (ends included), else allows with
\* no approval type.
C11_BlocksThenHours ==
    (result # None /\ ~ArgsOnPersonalDay) =>
        IF ArgsInBlock
        THEN /\ ~result[1].is_allowed
             /\ result[1].approval_type = Some("protected_time_override")
        ELSE IF ArgsOutsideHours
        THEN /\ ~result[1].is_allowed
             /\ result[1].approval_type = Some("work_hours_override")
        ELSE /\ result[1].is_allowed
             /\ result[1].approval_type = None

\* A meeting at the very end of a block is denied by the block
C11_Witness ==
    /\ result # None
    /\ ~ArgsOnPersonalDay
    /\ \E i \in DOMAIN args[1].constitution.protected_time_blocks :
          /\ ArgsDay \in args[1].constitution.protected_time_blocks[i].days
          /\ ArgsTime = strptime(args[1].constitution.protected_time_blocks[i].end)
    /\ result[1].approval_type = Some("protected_time_override")


(***************************************************************************)
(* find_reschedule_candidate called directly, as the unit tests call it    *)
(***************************************************************************)

\* The user's address as an attendee entry may spell it, and a second colleague
ME_UPPER == [ME EXCEPT !.caps = TRUE]
COLLEAGUE2 == Email("cy", "corp.com")

\* The events a list may hold.  Day 6 is the Sunday on which the clocks go
\* back from -07:00 to -08:00, so 01:30-07:00 is earlier than 01:10-08:00.
CandidateEvents ==
    { \* the user alone, and the user alone with the address in upper case
      Event("solo", Iso(1, 10, 0), Iso(1, 11, 0),
            <<Attendee(ME, "accepted", TRUE), Attendee(CLIENT, "declined", FALSE)>>),
      Event("solo_upper", Iso(0, 15, 0), Iso(0, 16, 0),
            <<Attendee(ME_UPPER, "accepted", TRUE)>>),
      \* two solo blocks in the repeated hour
      Event("solo_before", IsoAt(6, 1, 30, -420), IsoAt(6, 1, 50, -420),
            <<Attendee(ME, "accepted", TRUE)>>),
      Event("solo_after", IsoAt(6, 1, 10, -480), IsoAt(6, 1, 40, -480),
            <<Attendee(ME, "accepted", TRUE)>>),
      \* accepted by the user with others: 2, 1, 0 and 0 internal colleagues
      Event("team", Iso(0, 9, 0), Iso(0, 9, 30),
            <<Attendee(ME, "accepted", FALSE), Attendee(COLLEAGUE, "accepted", TRUE),
              Attendee(COLLEAGUE2, "accepted", FALSE)>>),
      Event("pair", Iso(0, 11, 0), Iso(0, 12, 0),
            <<Attendee(ME, "accepted", FALSE), Attendee(COLLEAGUE, "accepted", TRUE),
              Attendee(COLLEAGUE2, "tentative", FALSE)>>),
      Event("client_long", Iso(0, 13, 0), Iso(0, 15, 0),
            <<Attendee(ME_UPPER, "accepted", FALSE), Attendee(CLIENT, "accepted", TRUE)>>),
      Event("client_short", Iso(2, 13, 0), Iso(2, 13, 30),
            <<Attendee(ME, "accepted", FALSE), Attendee(CLIENT, "accepted", TRUE)>>),
      Event("client_early", Iso(1, 9, 0), Iso(1, 9, 30),
            <<Attendee(CLIENT, "accepted", TRUE), Attendee(ME, "accepted", FALSE)>>),
      \* not accepted by the user, and without attendees
      Event("invited", Iso(0, 8, 0), Iso(0, 8, 15),
            <<Attendee(ME, "needsAction", FALSE), Attendee(CLIENT, "accepted", TRUE)>>),
      Event("note", Iso(0, 7, 0), Iso(0, 7, 5), <<>>) }

\* The longest event list of a call
MaxEvents == 3

RECURSIVE Lists(_, _)
\* The sequences of at most n elements of S
Lists(S, n) ==
    IF n = 0 THEN {<<>>}
    ELSE Lists(S, n - 1) \cup { Append(l, e) : l \in { k \in Lists(S, n - 1) : Len(k) = n - 1 },
                                                e \in S }

CandidateArgs ==
    [events : Lists(CandidateEvents, MaxEvents),
     user_email : {ME},
     internal_domain : {[domain |-> "corp.com", caps |-> FALSE],
                        [domain |-> "corp.com", caps |-> TRUE]}]

InitCandidate ==
    /\ InitService
    /\ args \in {Some(a) : a \in CandidateArgs}
    /\ result = None

\* The call returns
call_find_reschedule_candidate ==
    /\ args # None
    /\ result = None
    /\ result' = Some(find_reschedule_candidate(args[1].events, args[1].user_email,
                                                args[1].internal_domain))
    /\ UNCHANGED args
    /\ UNCHANGED <<wf_vars, db_vars, ctx_vars>>

NextCandidate == call_find_reschedule_candidate

SpecCandidate == InitCandidate /\ [][NextCandidate]_vars


\* The events of the call that pass the solo-attendee test
SoloEvents ==
    { args[1].events[i] : i \in { j \in DOMAIN args[1].events :
                                    is_solo_attendee_event(args[1].events[j], args[1].user_email) } }

CandidateReturned == args # None /\ result # None /\ "events" \in DOMAIN args[1]

\* C12: whenever at least one event of the list passes the solo-attendee
\* test, find_reschedule_candidate returns a solo event, tagged
\* solo_attendee, and no solo event of the list starts before it, whatever
\* the other events are.
C12_SoloEarliestFirst ==
    (CandidateReturned /\ SoloEvents # {}) =>
        /\ result[1] # None
        /\ result[1][1].reason = "solo_attendee"
        /\ result[1][1].candidate_event \in SoloEvents
        /\ \A e \in SoloEvents :
              instant(fromisoformat(result[1][1].candidate_event.start))
                  <= instant(fromisoformat(e.start))


\* The events of the call that the user has accepted
AcceptedEvents ==
    { args[1].events[i] : i \in { j \in DOMAIN args[1].events :
        \E k \in DOMAIN args[1].events[j].attendees :
            /\ lower(args[1].events[j].attendees[k].email) = lower(args[1].user_email)
            /\ args[1].events[j].attendees[k].responseStatus = "accepted" } }

\* The accepted attendees of e other than the user whose lower-cased address
\* ends with "@" and the configured domain
InternalCount(e) ==
    Cardinality({ k \in DOMAIN e.attendees :
        /\ e.attendees[k].responseStatus = "accepted"
        /\ lower(e.attendees[k].email) # lower(args[1].user_email)
        /\ ~args[1].internal_domain.caps
        /\ e.attendees[k].email.domain = args[1].internal_domain.domain })

DurationMinutes(e) == instant(fromisoformat(e.end)) - instant(fromisoformat(e.start))

\* e comes strictly before f under (internal count, duration, start)
KeyBefore(e, f) ==
    \/ InternalCount(e) < InternalCount(f)
    \/ /\ InternalCount(e) = InternalCount(f)
       /\ DurationMinutes(e) < DurationMinutes(f)
    \/ /\ InternalCount(e) = InternalCount(f)
       /\ DurationMinutes(e) = DurationMinutes(f)
       /\ instant(fromisoformat(e.start)) < instant(fromisoformat(f.start))

BusynessEvents ==
    { Event("at_open", Iso(0, 9, 0), Iso(0, 10, 0), <<>>),
      Event("at_close", Iso(0, 17, 0), Iso(0, 18, 0), <<>>),
      Event("early", Iso(0, 8, 0), Iso(0, 10, 0), <<>>),
      Event("late_run", Iso(1, 16, 0), Iso(1, 19, 0), <<>>),
      Event("workshop", Iso(0, 10, 0), Iso(0, 17, 0), <<>>),
      Event("standup", Iso(0, 10, 30), Iso(0, 12, 0), <<>>),
      Event("offsite", Iso(0, 10, 0), Iso(2, 10, 0), <<>>),
      Event("saturday", Iso(5, 10, 0), Iso(5, 11, 0), <<>>) }

BusynessWorkHours ==
    { [start |-> HM(9, 0), end |-> HM(17, 0)],
      [start |-> HM(10, 0), end |-> HM(12, 0)],
      [start |-> HM(9, 0), end |-> HM(9, 0)] }

\* time_min and time_max: one Monday, Monday to Friday, a weekend, Friday
\* to the next Monday
BusynessRanges ==
    { [time_min |-> Iso(0, 0, 0), time_max |-> Iso(0, 23, 0)],
      [time_min |-> Iso(0, 8, 30), time_max |-> Iso(4, 8, 30)],
      [time_min |-> Iso(5, 0, 0), time_max |-> Iso(6, 23, 0)],
      [time_min |-> Iso(4, 12, 0), time_max |-> Iso(7, 12, 0)] }

BusynessArgs ==
    [busy_events : Lists(BusynessEvents, MaxEvents),
     work_hours : BusynessWorkHours,
     range : BusynessRanges]

InitBusyness ==
    /\ InitService
    /\ args \in {Some(a) : a \in BusynessArgs}
    /\ result = None

\* The call returns
call_calculate_busyness ==
    /\ args # None
    /\ result = None
    /\ result' = Some(calculate_busyness(args[1].busy_events, args[1].work_hours,
                                         args[1].range.time_min, args[1].range.time_max))
    /\ UNCHANGED args
    /\ UNCHANGED <<wf_vars, db_vars, ctx_vars>>

NextBusyness == call_calculate_busyness

SpecBusyness == InitBusyness /\ [][NextBusyness]_vars


BusynessReturned == args # None /\ result # None /\ "busy_events" \in DOMAIN args[1]

\* Minutes between the 'HH:MM' texts of the work-hours window
WindowMinutes ==
    (args[1].work_hours.end.hh * 60 + args[1].work_hours.end.mm)
        - (args[1].work_hours.start.hh * 60 + args[1].work_hours.start.mm)

\* Available minutes: the Monday-Friday dates from time_min's date to
\* time_max's date, both included, times the window
AvailableMinutes ==
    Cardinality({ d \in args[1].range.time_min.day .. args[1].range.time_max.day :
                    d % 7 \in 0..4 }) * WindowMinutes

\* The event starts at a time of day within the window, ends included
StartsInWindow(e) ==
    /\ args[1].work_hours.start.hh * 60 + args[1].work_hours.start.mm
           <= e.start.hh * 60 + e.start.mm
    /\ e.start.hh * 60 + e.start.mm
           <= args[1].work_hours.end.hh * 60 + args[1].work_hours.end.mm

RECURSIVE BookedUpTo(_)
\* Booked minutes of the first n events: the full length of those that
\* start in the window
BookedUpTo(n) ==
    IF n = 0 THEN 0
    ELSE BookedUpTo(n - 1)
         + (IF StartsInWindow(args[1].busy_events[n])
            THEN (args[1].busy_events[n].end.day - args[1].busy_events[n].start.day) * 1440
                 + (args[1].busy_events[n].end.hh - args[1].busy_events[n].start.hh) * 60
                 + (args[1].busy_events[n].end.mm - args[1].busy_events[n].start.mm)
            ELSE 0)

BookedMinutes == BookedUpTo(Len(args[1].busy_events))

\* C14: calculate_busyness returns available = weekdays of the inclusive
\* date range times the window, booked = the full durations of the events
\* that start in the window, density = booked / available to two decimal
\* places (0 when available is 0), and is_busy iff booked / available
\* exceeds 0.85.
C14_BusynessFormula ==
    BusynessReturned =>
        /\ result[1].total_work_minutes = AvailableMinutes
        /\ result[1].total_event_minutes = BookedMinutes
        /\ AvailableMinutes = 0 => result[1].density = 0 /\ ~result[1].is_busy
        /\ AvailableMinutes > 0 =>
              /\ 2 * (result[1].density * AvailableMinutes - 100 * BookedMinutes)
                     \in (0 - AvailableMinutes) .. AvailableMinutes
              /\ result[1].is_busy <=> 100 * BookedMinutes > 85 * AvailableMinutes

\* A window of ten hours of which exactly eight and a half are booked, one
\* event starting when the window opens: density 0.85 and not busy
C14_Witness ==
    /\ BusynessReturned
    /\ AvailableMinutes = 600
    /\ BookedMinutes = 510
    /\ result[1].density = 85
    /\ ~result[1].is_busy


\* C15: the density calculate_busyness returns is a fraction of the
\* available weekday work-hours: it lies between 0.0 and 1.0 (0 to 100
\* hundredths) for every event list and every window.
C15_DensityIsFraction ==
    BusynessReturned => result[1].density \in 0..100


\* The handler has just answered a request whose user id is in no row of users
AnsweredUnknownUser ==
    /\ resp' # resp
    /\ resp'.endpoint \in {"query", "approve"}
    /\ resp'.user_id \notin Users

\* C16: POST /agent/query and POST /agent/approve (approved or not) answer a
\* request whose user id belongs to no user with HTTP 404, and run no
\* workflow node for it.
C16_UnknownUserIs404 ==
    [][AnsweredUnknownUser =>
          /\ resp'.status = 404
          /\ UNCHANGED <<st, pc, visited, did>>
          /\ call' = None]_vars


\* The node that ran last in the run being served
LastNode == IF visited = <<>> THEN "none" ELSE visited[Len(visited)]

\* The run has just left a node that asks for the user's credentials, and
\* oauth_tokens has no row of the user
RanWithoutToken ==
    /\ call # None
    /\ LastNode \in {"assess_busyness", "find_and_book", "identify_meetings"}
    /\ select_tokens(oauth_tokens, st.user_id) = {}

\* C17: when the user has no row in oauth_tokens, a run that has gone
\* through assess_schedule_busyness, find_and_book_slot or
\* identify_meetings_to_reschedule has state.error set to "Unable to access
\* your calendar.", not to the generic message.
C17_NoTokenIsCalendarError ==
    RanWithoutToken => st.error = Some(MSG_CALENDAR_ACCESS_FAILED)


(***************************************************************************)
(* CredentialsManager.get_credentials called on a table of stored tokens   *)
(***************************************************************************)

\* The rows oauth_tokens may hold: with or without refresh token, without
\* expiry, expiring after one hour and after ten
StoredTokens ==
    [token_id : {1, 2}, user_id : Users, provider : {"google"}, access_token : {1},
     refresh_token : {None, Some("refresh")},
     expiry : {None, Some(60), Some(600)}]

\* The minutes at which the call is made
CallTimes == {0, 120, 720}

\* No two rows with one token_id
TokenTables ==
    { t \in SUBSET StoredTokens :
        /\ Cardinality(t) <= 2
        /\ \A r, q \in t : r.token_id = q.token_id => r = q }

CredentialsArgs ==
    [user_id : RequestUsers, now : CallTimes, stored : TokenTables]

InitCredentials ==
    /\ InitService
    /\ args \in {Some(a) : a \in CredentialsArgs}
    /\ result = None

\* The table is as the call finds it
with_stored_tokens ==
    /\ args # None
    /\ result = None
    /\ oauth_tokens # args[1].stored
    /\ oauth_tokens' = args[1].stored
    /\ UNCHANGED <<scheduling_rules, req, next_uuid, started>>
    /\ UNCHANGED wf_vars
    /\ UNCHANGED <<fn_vars, ctx_vars>>

\* The call returns; what it committed is in oauth_tokens
call_get_credentials ==
    /\ args # None
    /\ result = None
    /\ oauth_tokens = args[1].stored
    /\ LET got == get_credentials(oauth_tokens, args[1].user_id, args[1].now)
       IN  /\ result' = Some(got)
           /\ oauth_tokens' = got.tokens
    /\ UNCHANGED args
    /\ UNCHANGED <<scheduling_rules, req, next_uuid, started>>
    /\ UNCHANGED <<wf_vars, ctx_vars>>

NextCredentials ==
    \/ with_stored_tokens
    \/ call_get_credentials

SpecCredentials == InitCredentials /\ [][NextCredentials]_vars

CredentialsReturned == args # None /\ result # None /\ "stored" \in DOMAIN args[1]

\* The user's stored row, when there is exactly one, it has a refresh token
\* and its expiry is before the call
ExpiredRows ==
    { r \in args[1].stored :
        /\ select_tokens(args[1].stored, args[1].user_id) = {r}
        /\ r.refresh_token # None
        /\ r.expiry # None
        /\ r.expiry[1] < args[1].now }

\* C18: when the user's stored token has an expiry in the past and a refresh
\* token, get_credentials does not return the stored access token; it
\* returns a refreshed one, and the user's row holds that token with an
\* expiry after the call.
C18_RefreshOnRead ==
    CredentialsReturned =>
        \A r \in ExpiredRows :
            /\ result[1].raised = None
            /\ result[1].token # Some(r.access_token)
            /\ \E q \in oauth_tokens :
                  /\ q.token_id = r.token_id
                  /\ Some(q.access_token) = result[1].token
                  /\ q.expiry # None
                  /\ q.expiry[1] > args[1].now


(***************************************************************************)
(* Two agent requests served at the same time, one action per stretch      *)
(* between two awaits of the handler and of its graph run.  c is the        *)
(* session get_session gave the request.                                    *)
(***************************************************************************)

\* POST /agent/query or /agent/invoke arrives and is given its session
agent_request(c) ==
    /\ call = None
    /\ req[c].op = "idle"
    /\ started < MaxRequests
    /\ \E user_id \in RequestUsers :
          req' = [req EXCEPT ![c] = [IdleRequest EXCEPT !.op = "agent",
                                                       !.step = "initialize_graph",
                                                       !.user_id = user_id]]
    /\ started' = started + 1
    /\ get_session(c)
    /\ UNCHANGED <<oauth_tokens, scheduling_rules, next_uuid, node_context>>
    /\ UNCHANGED <<wf_vars, fn_vars>>

\* graph = await initialize_graph(session)
agent_initialize_graph(c) ==
    /\ req[c].op = "agent"
    /\ req[c].step = "initialize_graph"
    /\ initialize_graph(c)
    /\ req' = [req EXCEPT ![c].step = "select_user"]
    /\ UNCHANGED <<oauth_tokens, scheduling_rules, next_uuid, started, session_used>>
    /\ UNCHANGED <<wf_vars, fn_vars>>

\* await session.execute(select(User)...): 404 for an unknown user, else
\* graph.ainvoke starts and runs up to its first node that needs credentials
agent_select_user(c) ==
    /\ req[c].op = "agent"
    /\ req[c].step = "select_user"
    /\ req' = [req EXCEPT ![c] = IF req[c].user_id \in Users
                                 THEN [@ EXCEPT !.step = "assess_busyness"]
                                 ELSE IdleRequest]
    /\ UNCHANGED <<oauth_tokens, scheduling_rules, next_uuid, started>>
    /\ UNCHANGED <<wf_vars, fn_vars, ctx_vars>>

\* A node of the run awaits a service of nodes._context, which reads the
\* credentials through the session that context was built on; the run goes
\* on to another such node or to its end
agent_node(c) ==
    /\ req[c].op = "agent"
    /\ req[c].step \in CredentialNodes
    /\ session_used' = [session_used EXCEPT ![c] = @ \cup {node_context[1]}]
    /\ \E next \in IF req[c].step = "assess_busyness"
                   THEN {"find_and_book", "identify_meetings", "respond"}
                   ELSE IF req[c].step = "identify_meetings"
                   THEN {"draft_email", "respond"}
                   ELSE {"respond"} :
          req' = [req EXCEPT ![c].step = next]
    /\ UNCHANGED <<oauth_tokens, scheduling_rules, next_uuid, started, node_context>>
    /\ UNCHANGED <<wf_vars, fn_vars>>

\* graph.ainvoke has returned; the handler answers and its session is closed
agent_response(c) ==
    /\ req[c].op = "agent"
    /\ req[c].step = "respond"
    /\ req' = [req EXCEPT ![c] = IdleRequest]
    /\ UNCHANGED <<oauth_tokens, scheduling_rules, next_uuid, started>>
    /\ UNCHANGED <<wf_vars, fn_vars, ctx_vars>>

NextSessions ==
    \E c \in Connections :
        \/ agent_request(c)
        \/ agent_initialize_graph(c)
        \/ agent_select_user(c)
        \/ agent_node(c)
        \/ agent_response(c)

SpecSessions == Init /\ [][NextSessions]_vars

\* C19: the database session is never shared across requests: every
\* credentials operation of the nodes of a request's run goes through the
\* services built on that request's own session.
C19_OwnSessionOnly ==
    \A c \in Connections : session_used[c] \subseteq {c}


(***************************************************************************)
(* One node called on a state of a run, as LangGraph calls it              *)
(***************************************************************************)

\* The states a node may be called on: the state of a new thread with the
\* intent and the entities the LLM gave and the meeting chosen so far
NodeStates ==
    { [initial_state("u1", build_user_context(user_row("u1")))
          EXCEPT !.intent = Some(i), !.new_meeting = m, !.chosen_meeting = ch] :
        i \in {INTENT_SCHEDULE_MEETING, INTENT_RESCHEDULE_MEETING},
        m \in Entities \cup {EntityList},
        ch \in {None, Some(Event("weekly", Iso(0, 11, 0), Iso(0, 12, 0),
                                 <<Attendee(ME, "accepted", FALSE),
                                   Attendee(COLLEAGUE, "accepted", TRUE)>>))} }

\* oauth_tokens without and with the user's row
NodeTokens ==
    { {},
      { [token_id |-> 1, user_id |-> "u1", provider |-> "google", access_token |-> 1,
         refresh_token |-> Some("refresh"), expiry |-> Some(60)] } }

NodeArgs ==
    UNION { [node : {n}, s : NodeStates, tokens : NodeTokens, world : Worlds,
             o : Outcomes(n)] : n \in NODES }

InitNode ==
    /\ InitService
    /\ args \in {Some(a) : a \in NodeArgs}
    /\ result = None

\* The node returns, or an exception leaves it
call_node ==
    /\ args # None
    /\ result = None
    /\ result' = Some(run_node(args[1].node, args[1].s, args[1].tokens, args[1].world,
                               args[1].o))
    /\ UNCHANGED args
    /\ UNCHANGED <<wf_vars, db_vars, ctx_vars>>

NextNode == call_node

SpecNode == InitNode /\ [][NextNode]_vars

NodeReturned == args # None /\ result # None /\ "node" \in DOMAIN args[1]

\* The node asked for the credentials and got them
CredentialsFound ==
    get_credentials(args[1].tokens, args[1].s.user_id, instant(args[1].world.now)).raised = None

\* A call of the node to the LLM or to the calendar was made and failed
FailedCall ==
    \/ args[1].node = "determine_intent" /\ args[1].o.llm.raises
    \/ /\ args[1].node \in {"assess_busyness", "identify_meetings"}
       /\ CredentialsFound
       /\ ~args[1].o.fetch_ok
    \/ /\ args[1].node = "find_and_book"
       /\ args[1].s.new_meeting # EntityList
       /\ CredentialsFound
       /\ ~args[1].o.freebusy_ok
    \/ /\ args[1].node = "draft_email"
       /\ args[1].s.chosen_meeting # None
       /\ CredentialsFound
       /\ ~args[1].o.freebusy_ok

\* The entities the node reads are not an object, or their proposed_time is
\* no ISO text
MalformedValue ==
    /\ args[1].node \in {"check_constitution", "find_and_book"}
    /\ args[1].s.new_meeting # None
    /\ \/ ~args[1].s.new_meeting[1].is_dict
       \/ /\ args[1].node = "check_constitution"
          /\ args[1].s.new_meeting[1].proposed_time # None
          /\ ~args[1].s.new_meeting[1].proposed_time[1].valid

\* C20: no failure inside a node crashes the graph: whatever call of the
\* node fails and whatever malformed value the LLM extracted, no exception
\* leaves the node, and the node returns with state.error set.
C20_NodesNeverCrash ==
    NodeReturned =>
        /\ result[1].raised = None
        /\ (FailedCall \/ MalformedValue) => result[1].st.error # None

(***************************************************************************)
(* C21: the routing table                                                  *)
(***************************************************************************)

\* The routing table after determine_intent, by the intent in the state
IntentTable(intent) ==
    IF intent \in {Some(INTENT_SCHEDULE_MEETING), Some(INTENT_CHECK_AVAILABILITY),
                   Some(INTENT_ASSESS_BUSYNESS)}
    THEN "assess_busyness"
    ELSE IF intent = Some(INTENT_RESCHEDULE_MEETING) THEN "identify_meetings"
    ELSE "handle_unknown"

\* The routing table after assess_busyness, by the intent and is_busy
BusynessTable(intent, is_busy) ==
    IF intent = Some(INTENT_SCHEDULE_MEETING)
    THEN IF is_busy = Some(TRUE) THEN "identify_meetings" ELSE "check_constitution"
    ELSE "return_response"

\* A node has run and the graph has taken the edge out of it
TookEdge == call # None /\ call' # None /\ visited' = Append(visited, pc)

\* C21: the transition the graph takes out of determine_intent and out of
\* assess_busyness is the one the routing table gives for the state the node
\* left, and a state without an intent is routed to handle_unknown.
C21_RoutingTable ==
    [][ /\ TookEdge /\ pc = "determine_intent" => pc' = IntentTable(st'.intent)
        /\ TookEdge /\ pc = "assess_busyness" =>
               pc' = BusynessTable(st'.intent, st'.is_busy)
        /\ next_node("determine_intent", [st EXCEPT !.intent = None]) = "handle_unknown"
        /\ next_node("assess_busyness", [st EXCEPT !.intent = None]) = "return_response"
      ]_vars

\* A busy schedule has sent a scheduling request on to identify_meetings
C21_Witness ==
    /\ call # None
    /\ visited = <<"load_context", "determine_intent", "assess_busyness">>
    /\ st.intent = Some(INTENT_SCHEDULE_MEETING)
    /\ st.is_busy = Some(TRUE)
    /\ pc = "identify_meetings"

(***************************************************************************)
(* C22: execute_reschedule is never entered                                *)
(***************************************************************************)

\* C22: no graph invocation stands at or has run execute_reschedule, and no
\* request has moved a meeting or sent an e-mail.
C22_NeverExecutes ==
    /\ pc # "execute_reschedule"
    /\ "execute_reschedule" \notin Range(visited)
    /\ did.moved = <<>>
    /\ did.sent = <<>>

\* An e-mail was drafted for approval and the approval has been answered
C22_Witness ==
    /\ st.drafted_email # None
    /\ st.approval_type = Some("email_approval")
    /\ resp.endpoint = "approve"
    /\ resp.status = 200
    /\ resp.response # <<"Action cancelled by user.">>
    /\ call = None

(***************************************************************************)
(* C23: what find_and_book_slot books                                      *)
(***************************************************************************)

\* find_and_book_slot was called on entities that are an object, or on none
BookReturned ==
    /\ NodeReturned
    /\ args[1].node = "find_and_book"
    /\ args[1].s.new_meeting # EntityList

\* The slot search the node makes: the wanted duration is the meeting's, or 60
SlotSearch ==
    service_find_available_slots(
        args[1].tokens, args[1].s.user_id, args[1].world,
        IF args[1].s.new_meeting # None /\ args[1].s.new_meeting[1].duration # None
        THEN args[1].s.new_meeting[1].duration[1] ELSE 60,
        args[1].s.user_context.constitution.working_hours, args[1].o.freebusy_ok)

\* The verdict on the first slot of the search, as a business meeting
FirstSlotChecked ==
    check_constitution(SlotSearch.slots[1].start, args[1].s.user_context.constitution,
                       "business")

\* C23: find_and_book_slot creates an event only for the first slot of the
\* slot search and only when that slot passes the constitution as a business
\* meeting; a first slot that violates the policy yields no event but an
\* approval request with the rule's approval type and the slot start as
\* proposed_time; no slot yields no event.
C23_BooksFirstCompliantSlot ==
    BookReturned =>
        /\ result[1].created # <<>> =>
              /\ SlotSearch.raised = None
              /\ SlotSearch.slots # <<>>
              /\ FirstSlotChecked.is_allowed
              /\ Len(result[1].created) = 1
              /\ result[1].created[1].start = SlotSearch.slots[1].start
              /\ result[1].created[1].end = SlotSearch.slots[1].end
        /\ (SlotSearch.raised = None /\ SlotSearch.slots # <<>>
                /\ ~FirstSlotChecked.is_allowed) =>
              /\ result[1].created = <<>>
              /\ result[1].st.requires_approval = TRUE
              /\ result[1].st.approval_type = FirstSlotChecked.approval_type
              /\ result[1].st.approval_type # None
              /\ result[1].st.approval_data # None
              /\ result[1].st.approval_data[1].proposed_time
                     = Some(SlotSearch.slots[1].start)
        /\ (SlotSearch.raised = None /\ SlotSearch.slots = <<>>) =>
              result[1].created = <<>>

\* The first slot found falls on a personal day: approval is asked, nothing booked
C23_Witness ==
    /\ BookReturned
    /\ SlotSearch.raised = None
    /\ SlotSearch.slots # <<>>
    /\ ~FirstSlotChecked.is_allowed
    /\ result[1].created = <<>>
    /\ result[1].st.requires_approval = TRUE

(***************************************************************************)
(* find_available_slots called on free/busy data                           *)
(***************************************************************************)

\* Busy intervals of the provider's free/busy answer.  The windows start on
\* day 1: intervals that overlap, are nested, start before the window, lie
\* after it, run past its end, and one the provider gives with a UTC offset.
BusyIntervals ==
    { Busy(Iso(1, 11, 0), Iso(1, 12, 0)),
      Busy(Iso(1, 11, 30), Iso(1, 13, 0)),
      Busy(Iso(1, 10, 0), Iso(1, 16, 30)),
      Busy(Iso(0, 22, 0), Iso(1, 10, 30)),
      Busy(Iso(2, 9, 0), Iso(2, 17, 0)),
      Busy(Iso(9, 9, 0), Iso(9, 10, 0)),
      Busy(IsoAt(1, 7, 0, -420), IsoAt(1, 8, 0, -420)),
      Busy(Iso(1, 12, 0), Iso(8, 12, 0)) }

\* The busy intervals one free/busy answer holds, over its calendars
MaxBusy == 3

\* A day of half-hour meetings with half an hour between them
PackedDay ==
    << Busy(Iso(1, 10, 30), Iso(1, 11, 0)), Busy(Iso(1, 11, 30), Iso(1, 12, 0)),
       Busy(Iso(1, 12, 30), Iso(1, 13, 0)), Busy(Iso(1, 13, 30), Iso(1, 14, 0)),
       Busy(Iso(1, 14, 30), Iso(1, 15, 0)), Busy(Iso(1, 15, 30), Iso(1, 16, 0)),
       Busy(Iso(1, 16, 30), Iso(1, 17, 0)) >>

\* free_busy_data: the busy list of one calendar, or of two
FreeBusyData ==
    { <<Calendar(l)>> : l \in Lists(BusyIntervals, MaxBusy) \cup {PackedDay} }
    \cup { <<Calendar(<<l[1]>>), Calendar(Tail(l))>> :
              l \in {k \in Lists(BusyIntervals, MaxBusy) : Len(k) >= 2} }

\* time_min and time_max: a week from 10:00, a week from 20:00, two days from 09:00
SearchWindows ==
    { [time_min |-> Iso(1, 10, 0), time_max |-> Iso(8, 10, 0)],
      [time_min |-> Iso(1, 20, 0), time_max |-> Iso(8, 20, 0)],
      [time_min |-> Iso(1, 9, 0),  time_max |-> Iso(3, 9, 0)] }

SlotsWorkHours ==
    { [start |-> HM(9, 0), end |-> HM(17, 0)],
      [start |-> HM(10, 0), end |-> HM(12, 0)] }

SlotsArgs ==
    [free_busy_data : FreeBusyData, duration_minutes : {30, 60}, window : SearchWindows,
     work_hours : SlotsWorkHours]

InitSlots ==
    /\ InitService
    /\ args \in {Some(a) : a \in SlotsArgs}
    /\ result = None

\* The call returns
call_find_available_slots ==
    /\ args # None
    /\ result = None
    /\ result' = Some(find_available_slots(args[1].free_busy_data, args[1].duration_minutes,
                                           args[1].window.time_min, args[1].window.time_max,
                                           args[1].work_hours))
    /\ UNCHANGED args
    /\ UNCHANGED <<wf_vars, db_vars, ctx_vars>>

NextSlots == call_find_available_slots

SpecSlots == InitSlots /\ [][NextSlots]_vars

SlotsReturned == args # None /\ result # None /\ "free_busy_data" \in DOMAIN args[1]

\* The slots returned, and the instants of their starts and ends
Slots == result[1]
SlotStart(i) == instant(fromisoformat(Slots[i].start))
SlotEnd(i) == instant(fromisoformat(Slots[i].end))

\* The busy intervals of all calendars of the input, as instants
AllBusy ==
    UNION { { [start |-> instant(fromisoformat(c.busy[i].start)),
               end   |-> instant(fromisoformat(c.busy[i].end))] : i \in DOMAIN c.busy } :
            c \in Range(args[1].free_busy_data) }

WindowStart == instant(fromisoformat(args[1].window.time_min))
WindowEnd == instant(fromisoformat(args[1].window.time_max))

\* Instant t is inside a busy interval
Covered(t) == \E b \in AllBusy : b.start <= t /\ t < b.end

\* A gap starts at t: t is free, and is the start of the window or the end
\* of a busy interval
GapStartsAt(t) ==
    /\ WindowStart <= t
    /\ t < WindowEnd
    /\ ~Covered(t)
    /\ t = WindowStart \/ \E b \in AllBusy : b.end = t

\* The end of the gap that starts at t: the next busy interval, or the end of
\* the window
GapEnd(t) ==
    LET stops == {b.start : b \in {x \in AllBusy : x.start > t /\ x.start < WindowEnd}}
    IN  IF stops = {} THEN WindowEnd
        ELSE CHOOSE m \in stops : \A n \in stops : m <= n

\* C24: find_available_slots returns at most 5 slots, in strictly increasing
\* order of start, at most one per gap between busy intervals; every slot has
\* exactly the wanted length, starts at the start of a gap that is at least
\* that long, and starts at a time of day within the work hours.
C24_SlotsOfGaps ==
    SlotsReturned =>
        /\ Len(Slots) <= 5
        /\ \A i, j \in DOMAIN Slots :
              i < j => SlotStart(i) < SlotStart(j) /\ GapEnd(SlotStart(i)) <= SlotStart(j)
        /\ \A i \in DOMAIN Slots :
              /\ Slots[i].start.valid /\ Slots[i].end.valid
              /\ SlotEnd(i) - SlotStart(i) = args[1].duration_minutes
              /\ GapStartsAt(SlotStart(i))
              /\ GapEnd(SlotStart(i)) - SlotStart(i) >= args[1].duration_minutes
              /\ strptime(args[1].work_hours.start) <= time_of(fromisoformat(Slots[i].start))
              /\ time_of(fromisoformat(Slots[i].start)) <= strptime(args[1].work_hours.end)

\* Of seven gaps that qualify the first five are returned
C24_Witness ==
    /\ SlotsReturned
    /\ args[1].free_busy_data = <<Calendar(PackedDay)>>
    /\ args[1].duration_minutes = 30
    /\ Len(Slots) = 5
    /\ Slots[1].start = Iso(1, 10, 0)
    /\ Slots[5].start = Iso(1, 14, 0)

(***************************************************************************)
(* C25: a run that ends in an error has booked nothing                     *)
(***************************************************************************)

\* C25: whenever a workflow run ends with state.error set, no calendar event
\* was created during that run.
C25_ErrorMeansNothingBooked ==
    (RunEnded /\ st.error # None) => did.created = <<>>

(***************************************************************************)
(* C26: an error and an approval request exclude each other                *)
(***************************************************************************)

\* The first words of the approval questions the nodes write
ApprovalQuestions ==
    {"Override Required: ", "Found a slot at ", "Draft Email for Review",
     "To free up time, I suggest rescheduling '", "No solo-attendee meetings found. "}

\* C26: at the end of every workflow run, if state.error is set then
\* requires_approval is false, and if requires_approval is true then
\* final_response is the approval question of a node.
C26_ErrorOrApproval ==
    RunEnded =>
        /\ st.error # None => ~st.requires_approval
        /\ st.requires_approval =>
              st.final_response # <<>> /\ st.final_response[1] \in ApprovalQuestions

(***************************************************************************)
(* C27: slots lie in the window and off the busy intervals                 *)
(***************************************************************************)

\* C27: every slot returned by find_available_slots lies inside the search
\* window and overlaps no busy interval of any calendar of the input.
C27_SlotsFreeInWindow ==
    SlotsReturned =>
        \A i \in DOMAIN Slots :
            /\ WindowStart <= SlotStart(i)
            /\ SlotEnd(i) <= WindowEnd
            /\ \A b \in AllBusy : ~(b.start < SlotEnd(i) /\ SlotStart(i) < b.end)

\* A meeting nested in a longer one, given after it: the slot found starts
\* when the longer one ends
C27_Witness ==
    /\ SlotsReturned
    /\ args[1].free_busy_data = <<Calendar(<<Busy(Iso(1, 10, 0), Iso(1, 16, 30)),
                                             Busy(Iso(1, 11, 0), Iso(1, 12, 0))>>)>>
    /\ args[1].window.time_min = Iso(1, 10, 0)
    /\ Slots # <<>>
    /\ Slots[1].start = Iso(1, 16, 30)

(***************************************************************************)
(* C28, C29: slots and the working day                                     *)
(***************************************************************************)

\* C28: if the free/busy input holds no busy interval and the window spans
\* at least one full day, find_available_slots returns at least one slot.
C28_EmptyCalendarHasSlot ==
    (SlotsReturned /\ AllBusy = {} /\ WindowEnd - WindowStart >= 1440) => Slots # <<>>

\* C29: every slot returned by find_available_slots lies within the working
\* hours: its start and its end are times of day inside [start, end] of the
\* work hours, on the same day.
C29_SlotWithinWorkHours ==
    SlotsReturned =>
        \A i \in DOMAIN Slots :
            LET from == fromisoformat(Slots[i].start)
                to == fromisoformat(Slots[i].end)
                work_start == strptime(args[1].work_hours.start)
                work_end == strptime(args[1].work_hours.end)
            IN  /\ work_start <= time_of(from) /\ time_of(from) <= work_end
                /\ work_start <= time_of(to) /\ time_of(to) <= work_end
                /\ date_of(from) = date_of(to)

(***************************************************************************)
(* C30: the candidate is a meeting the user has accepted                   *)
(***************************************************************************)

\* The event find_reschedule_candidate returned
CandidateEvent == result[1][1].candidate_event

\* C30: whenever find_reschedule_candidate returns a candidate, in either
\* tier, the candidate is one of the input events and the requesting user is
\* an accepted attendee of it.
C30_CandidateAccepted ==
    (CandidateReturned /\ result[1] # None) =>
        /\ CandidateEvent \in Range(args[1].events)
        /\ \E k \in DOMAIN CandidateEvent.attendees :
              /\ lower(CandidateEvent.attendees[k].email) = lower(args[1].user_email)
              /\ CandidateEvent.attendees[k].responseStatus = "accepted"

\* The list starts with an invitation the user has not answered, which is
\* shorter and earlier than the accepted meeting that is returned
C30_Witness ==
    /\ CandidateReturned
    /\ result[1] # None
    /\ args[1].events[1].id = "invited"
    /\ result[1][1].reason = "fewest_internal"
    /\ CandidateEvent.id = "client_short"

====
